---- MODULE Spec2Model ----
(***************************************************************************)
(* Completion tracking (TorrentEventer.run) and the per-subscriber event   *)
(* stream (TorrentEventer.Events) of torrential, together with the part of *)
(* the transfer engine they observe.                                       *)
(*                                                                         *)
(* A channel that is only ever closed (a completion signal) is modelled by *)
(* the number of close() calls made on it: 0 = open, 1 = closed, 2 = a     *)
(* second close was attempted, which in Go panics and ends the process.    *)
(***************************************************************************)
EXTENDS Integers, Sequences, FiniteSets, TLC

\* ---------------------------------------------------------------- bounds
MaxFiles == 2
MaxFileLen == 2
MaxPieceLen == 2
MaxPieces == 2
MaxFeed == 1
MaxWritten == 2
MaxLength == 3
SweepMaxFiles == 3
SweepMaxFileLen == 2
SweepMaxPieceLen == 3
SweepMaxPieces == 3
MaxEventType == 8
MaxEventers == 2
MaxSubscribers == 1
MaxSeedLength == 3
MaxSeedRatio == 2
MaxSeedWritten == 7

VARIABLES
  \* the transfer (github.com/anacrolix/torrent.Torrent), as the tracker sees it
  tFiles,         \* sequence of file lengths, in offset order
  tPieceLength,   \* fixed piece length
  tNumPieces,     \* number of pieces
  tGotInfo,       \* torrent.GotInfo() is closed
  tClosed,        \* torrent.Closed() is closed
  tComplete,      \* pieces whose PieceState(i).Complete is true
  tWritten,       \* torrent.Stats().DataBytesWritten, as last read by the worker
  subOpen,        \* the worker's subscription is registered with the transfer
  subValues,      \* sub.Values: queued PieceStateChange notifications
  subClosed,      \* sub.Values has been closed by the transfer
  \* TorrentEventer fields
  seedRatio,
  added, gotInfo, chansReady, downloadDone, seedingDone, closed,
  pieceDone,      \* map[int]chan struct{}
  fileDone,       \* map[string]chan struct{}, keyed by file index
  \* locals of TorrentEventer.run
  pc,
  incompleteFilePieces,
  incompletePieceFiles,
  fileIndex,
  i,
  panicked,       \* a goroutine panicked: the process is gone
  \* one call of TorrentEventer.Events(done) by one subscriber
  done,           \* the subscriber's cancellation channel is closed
  events,         \* the events the subscriber has received, in order
  eventsClosed,   \* close(events) has run
  mainPc,         \* position of the goroutine started by Events
  spawnPc,        \* position of the goroutine that starts the emitters
  wg,             \* the sync.WaitGroup counter
  piecePc,        \* position of the emitter goroutine of each piece
  filePc,         \* position of the emitter goroutine of each file
  \* MultiEventer: the trackers are numbered, and so are the subscribers
  eventerMap,     \* the trackers in e.eventerMap
  eventerChans,   \* the subscribers whose eventerChan is in e.eventerChans
  readers,        \* number of read locks held on e.mutex
  addPc,          \* position of the call of add for each tracker
  addChans,       \* the eventerChans its range has still to visit
  addChan,        \* the subscriber it is sending the tracker to
  removePc,       \* position of the goroutine that deletes the tracker
  callPc,         \* position of each subscriber's call of Events
  registeredAtCall, \* e.eventerMap when the subscriber's chan was registered
  replayPc,       \* position of the goroutine that replays e.eventerMap
  replayEventers, \* the trackers its range has still to visit
  relayPc,        \* position of the goroutine that reads eventerChan
  relayed,        \* how many times each tracker was read from eventerChan
  forwardPc,      \* the forwarder goroutines of each tracker: the number at
                  \* the stream's first select and the number sending
  combined,       \* how many events of each tracker the subscriber received
  multiDone,      \* the subscriber's cancellation channel is closed
  combinedClosed, \* close(events) of the combined stream has run
  \* calls of the methods of EventType
  stringCall,     \* the last call of String: its receiver and what it returned
  marshalCall,    \* the last call of MarshalJSON: its receiver, data and err
  \* another call of TorrentEventer.Events(done) on the same tracker, by
  \* another subscriber
  otherDone, otherEvents, otherEventsClosed, otherMainPc, otherSpawnPc,
  otherWg, otherPiecePc, otherFilePc,
  \* Service
  dropWhenDone,   \* svc.conf.DropWhenDone
  svcEventers,    \* the info hashes with an entry in svc.eventers
  svcPc,          \* position of the call of addTorrentSpec
  svcHandled,     \* how many events of its stream the service has handled
  dropPc,         \* position of the call of Service.Drop
  \* one transfer in its seed phase, polled with seedWait
  seedWaitCall    \* the transfer's counters and the last call of seedWait

trackerVars == <<tFiles, tPieceLength, tNumPieces, tGotInfo, tClosed, tComplete,
                 tWritten, subOpen, subValues, subClosed, seedRatio,
                 added, gotInfo, chansReady, downloadDone, seedingDone, closed,
                 pieceDone, fileDone, pc, incompleteFilePieces,
                 incompletePieceFiles, fileIndex, i, panicked>>

streamVars == <<done, events, eventsClosed, mainPc, spawnPc, wg, piecePc, filePc>>

multiVars == <<eventerMap, eventerChans, readers, addPc, addChans,
               addChan, removePc, callPc, registeredAtCall, replayPc,
               replayEventers, relayPc, relayed, forwardPc,
               combined, multiDone, combinedClosed>>

typeVars == <<stringCall, marshalCall>>

otherVars == <<otherDone, otherEvents, otherEventsClosed, otherMainPc,
               otherSpawnPc, otherWg, otherPiecePc, otherFilePc>>

serviceVars == <<dropWhenDone, svcEventers, svcPc, svcHandled, dropPc>>
waitVars == <<seedWaitCall>>

\* what the tracker, its first stream and the registry leave alone
restVars == <<typeVars, otherVars, serviceVars, waitVars>>

vars == <<trackerVars, streamVars, multiVars, restVars>>

\* what a step of a stream goroutine or of the subscriber leaves alone
runVars == <<tFiles, tPieceLength, tNumPieces, tGotInfo, tClosed, tComplete,
             tWritten, subOpen, subValues, subClosed, seedRatio,
             added, gotInfo, chansReady, downloadDone, seedingDone, closed,
             pieceDone, fileDone, pc, incompleteFilePieces,
             incompletePieceFiles, fileIndex, i, multiVars, restVars>>

\* what a step of the other stream or of its subscriber leaves alone
otherRunVars == <<tFiles, tPieceLength, tNumPieces, tGotInfo, tClosed, tComplete,
                  tWritten, subOpen, subValues, subClosed, seedRatio,
                  added, gotInfo, chansReady, downloadDone, seedingDone, closed,
                  pieceDone, fileDone, pc, incompleteFilePieces,
                  incompletePieceFiles, fileIndex, i, multiVars, streamVars,
                  typeVars, serviceVars, waitVars>>

torrentVars == <<tFiles, tPieceLength, tNumPieces, tGotInfo, tClosed, tComplete,
                 tWritten, subValues, subClosed>>

geometryVars == <<tFiles, tPieceLength, tNumPieces, seedRatio>>

signalVars == <<added, gotInfo, chansReady, downloadDone, seedingDone, closed,
                pieceDone, fileDone>>

localVars == <<incompleteFilePieces, incompletePieceFiles, fileIndex, i>>

\* ------------------------------------------------------- transfer geometry
RECURSIVE SumTo(_, _)
SumTo(s, n) == IF n = 0 THEN 0 ELSE s[n] + SumTo(s, n - 1)

NumFiles == Len(tFiles)
Files == 0 .. (NumFiles - 1)
Pieces == 0 .. (tNumPieces - 1)
Length == SumTo(tFiles, NumFiles)

FileLength(f) == tFiles[f + 1]
FileOffset(f) == SumTo(tFiles, f)

PieceOffset(p) == p * tPieceLength
PieceLength(p) ==
  IF p = tNumPieces - 1 THEN Length - p * tPieceLength ELSE tPieceLength

\* pieces needed to cover n bytes with pieces of l bytes
PiecesFor(n, l) == (n + l - 1) \div l

\* torrent.BytesMissing(): the bytes of the pieces that are not complete
RECURSIVE SumPieces(_)
SumPieces(S) ==
  IF S = {} THEN 0
  ELSE LET p == CHOOSE x \in S : TRUE IN PieceLength(p) + SumPieces(S \ {p})

BytesMissing == SumPieces(Pieces \ tComplete)
BytesCompleted == Length - BytesMissing

\* ------------------------------------------------------- channel helpers
\* close(c)
Close(c) == c + 1
IsClosed(c) == c >= 1
\* close of a closed channel panics
DoubleClose(c) == c >= 2

\* the empty map
EmptyMap == [x \in {} |-> 0]

\* ------------------------------------------------------------ the transfer
FileLists == UNION {[1 .. n -> 0 .. MaxFileLen] : n \in 1 .. MaxFiles}
SeedRatios == {0, 1}

\* The piece counts a transfer of n bytes with pieces of l bytes can have:
\* the covering count, and one more (a trailing piece of length 0) when the
\* last covering piece is full.
PieceCounts(n, l) ==
  {PiecesFor(n, l)} \cup (IF n % l = 0 THEN {PiecesFor(n, l) + 1} ELSE {})

\* the pieces that hold data
DataPieces == {p \in Pieces : PieceLength(p) > 0}

InitTorrent ==
  /\ tFiles \in FileLists
  /\ tPieceLength \in 1 .. MaxPieceLen
  /\ tNumPieces \in PieceCounts(SumTo(tFiles, Len(tFiles)), tPieceLength)
  /\ SumTo(tFiles, Len(tFiles)) <= MaxLength
  /\ tNumPieces <= MaxPieces
  /\ tGotInfo \in BOOLEAN
  /\ tComplete \in (IF tGotInfo THEN SUBSET DataPieces ELSE {{}})
  /\ tClosed = FALSE
  /\ tWritten = 0
  /\ subOpen = FALSE
  /\ subValues = <<>>
  /\ subClosed = FALSE

\* newTorrentEventer up to "go e.run()"
InitEventer ==
  /\ seedRatio \in SeedRatios
  /\ added = 0 /\ gotInfo = 0 /\ chansReady = 0
  /\ downloadDone = 0 /\ seedingDone = 0 /\ closed = 0
  /\ pieceDone = EmptyMap
  /\ fileDone = EmptyMap
  /\ pc = "start"
  /\ incompleteFilePieces = EmptyMap
  /\ incompletePieceFiles = EmptyMap
  /\ fileIndex = 0
  /\ i = 0
  /\ panicked = FALSE

\* the transfer's metadata becomes available
EnvGotInfo ==
  /\ ~panicked /\ ~tGotInfo /\ ~tClosed
  /\ tGotInfo' = TRUE
  /\ UNCHANGED <<tFiles, tPieceLength, tNumPieces, tClosed, tComplete, 
                 tWritten, subOpen, subValues, subClosed, seedRatio>>
  /\ UNCHANGED <<signalVars, pc, localVars, panicked>>
  /\ UNCHANGED <<streamVars, multiVars, restVars>>

\* the data of a piece is verified: its state becomes complete and the change
\* is published to the subscribers
EnvPieceComplete(p) ==
  /\ ~panicked /\ tGotInfo /\ ~tClosed
  /\ p \in DataPieces \ tComplete
  /\ tComplete' = tComplete \cup {p}
  /\ subValues' = IF subOpen
                  THEN Append(subValues, [Index |-> p, Complete |-> TRUE])
                  ELSE subValues
  /\ UNCHANGED <<tFiles, tPieceLength, tNumPieces, tGotInfo, tClosed, 
                 tWritten, subOpen, subClosed, seedRatio>>
  /\ UNCHANGED <<signalVars, pc, localVars, panicked>>
  /\ UNCHANGED <<streamVars, multiVars, restVars>>

\* another part of a piece's state changes (priority, checking, partial):
\* the change is published with the piece's current Complete flag
EnvPieceStateChange(p) ==
  /\ ~panicked /\ tGotInfo /\ ~tClosed /\ subOpen
  /\ p \in Pieces
  /\ Len(subValues) < MaxFeed
  /\ subValues' = Append(subValues, [Index |-> p, Complete |-> p \in tComplete])
  /\ UNCHANGED <<tFiles, tPieceLength, tNumPieces, tGotInfo, tClosed, tComplete,
                 tWritten, subOpen, subClosed, seedRatio>>
  /\ UNCHANGED <<signalVars, pc, localVars, panicked>>
  /\ UNCHANGED <<streamVars, multiVars, restVars>>

\* the transfer is closed (dropped): its Closed() signal closes and so do
\* its subscriptions; notifications still queued are delivered or lost
EnvClose(keep) ==
  /\ ~panicked /\ ~tClosed
  /\ tClosed' = TRUE
  /\ subClosed' = TRUE
  /\ subValues' = IF keep THEN subValues ELSE <<>>
  /\ UNCHANGED <<tFiles, tPieceLength, tNumPieces, tGotInfo, tComplete,
                 tWritten, subOpen, seedRatio>>
  /\ UNCHANGED <<signalVars, pc, localVars, panicked>>
  /\ UNCHANGED <<streamVars, multiVars, restVars>>

\* ------------------------------------------------------ TorrentEventer.run
\* the deferred sub.Close() of run, on every return
Return ==
  /\ pc' = "done"
  /\ subOpen' = FALSE

\* the subscription left out: the worker goes on to close(e.added)
RunWithoutSubscribe ==
  /\ ~panicked /\ pc = "start"
  /\ pc' = "closeAdded"
  /\ UNCHANGED <<geometryVars, tGotInfo, tClosed, tComplete, tWritten, subOpen,
                 subValues, subClosed, signalVars, localVars, panicked>>
  /\ UNCHANGED <<streamVars, multiVars, restVars>>

\* sub := e.torrent.SubscribePieceStateChanges()
RunSubscribe ==
  /\ ~panicked /\ pc = "start"
  /\ subOpen' = TRUE
  /\ pc' = "closeAdded"
  /\ UNCHANGED <<geometryVars, tGotInfo, tClosed, tComplete, tWritten,
                 subValues, subClosed, signalVars, localVars, panicked>>
  /\ UNCHANGED <<streamVars, multiVars, restVars>>

\* close(e.added)
RunCloseAdded ==
  /\ ~panicked /\ pc = "closeAdded"
  /\ added' = Close(added)
  /\ pc' = "waitInfo"
  /\ UNCHANGED <<geometryVars, tGotInfo, tClosed, tComplete, tWritten, subOpen,
                 subValues, subClosed, gotInfo, chansReady, downloadDone,
                 seedingDone, closed, pieceDone, fileDone, localVars, panicked>>
  /\ UNCHANGED <<streamVars, multiVars, restVars>>

\* the close(e.gotInfo) left out: the worker goes on to allocate the signals
RunGotInfoNoClose ==
  /\ ~panicked /\ pc = "waitInfo"
  /\ tGotInfo
  /\ pc' = "alloc"
  /\ UNCHANGED <<geometryVars, tGotInfo, tClosed, tComplete, tWritten, subOpen,
                 subValues, subClosed, signalVars, localVars, panicked>>
  /\ UNCHANGED <<streamVars, multiVars, restVars>>

\* select { case <-e.torrent.GotInfo(): close(e.gotInfo) ... }
RunGotInfo ==
  /\ ~panicked /\ pc = "waitInfo"
  /\ tGotInfo
  /\ gotInfo' = Close(gotInfo)
  /\ pc' = "alloc"
  /\ UNCHANGED <<geometryVars, tGotInfo, tClosed, tComplete, tWritten, subOpen,
                 subValues, subClosed, added, chansReady, downloadDone,
                 seedingDone, closed, pieceDone, fileDone, localVars, panicked>>
  /\ UNCHANGED <<streamVars, multiVars, restVars>>

\* the Closed case returns without close(e.closed)
RunClosedBeforeInfoSilent ==
  /\ ~panicked /\ pc = "waitInfo"
  /\ tClosed
  /\ Return
  /\ UNCHANGED <<geometryVars, tGotInfo, tClosed, tComplete, tWritten,
                 subValues, subClosed, signalVars, localVars, panicked>>
  /\ UNCHANGED <<streamVars, multiVars, restVars>>

\* select { ... case <-e.torrent.Closed(): close(e.closed); return }
RunClosedBeforeInfo ==
  /\ ~panicked /\ pc = "waitInfo"
  /\ tClosed
  /\ closed' = Close(closed)
  /\ Return
  /\ UNCHANGED <<geometryVars, tGotInfo, tClosed, tComplete, tWritten,
                 subValues, subClosed, added, gotInfo, chansReady, downloadDone,
                 seedingDone, pieceDone, fileDone, localVars, panicked>>
  /\ UNCHANGED <<streamVars, multiVars, restVars>>

\* the second loop running to i <= NumPieces(): one pieceDone channel too many
RunAllocOneMore ==
  /\ ~panicked /\ pc = "alloc"
  /\ incompleteFilePieces' = [f \in Files |-> {}]
  /\ incompletePieceFiles' = EmptyMap
  /\ fileDone' = [f \in Files |-> 0]
  /\ pieceDone' = [p \in 0 .. tNumPieces |-> 0]
  /\ pc' = "chansReady"
  /\ UNCHANGED <<geometryVars, tGotInfo, tClosed, tComplete, tWritten, subOpen,
                 subValues, subClosed, added, gotInfo, chansReady, downloadDone,
                 seedingDone, closed, fileIndex, i, panicked>>
  /\ UNCHANGED <<streamVars, multiVars, restVars>>

\* the two loops that allocate the fileDone and the pieceDone channels
RunAlloc ==
  /\ ~panicked /\ pc = "alloc"
  /\ incompleteFilePieces' = [f \in Files |-> {}]
  /\ incompletePieceFiles' = EmptyMap
  /\ fileDone' = [f \in Files |-> 0]
  /\ pieceDone' = [p \in Pieces |-> 0]
  /\ pc' = "chansReady"
  /\ UNCHANGED <<geometryVars, tGotInfo, tClosed, tComplete, tWritten, subOpen,
                 subValues, subClosed, added, gotInfo, chansReady, downloadDone,
                 seedingDone, closed, fileIndex, i, panicked>>
  /\ UNCHANGED <<streamVars, multiVars, restVars>>

\* close(e.chansReady); fileIndex := 0; i := 0
RunChansReady ==
  /\ ~panicked /\ pc = "chansReady"
  /\ chansReady' = Close(chansReady)
  /\ fileIndex' = 0
  /\ i' = 0
  /\ pc' = IF 0 < tNumPieces THEN "sweep" ELSE "checkFiles"
  /\ UNCHANGED <<geometryVars, tGotInfo, tClosed, tComplete, tWritten, subOpen,
                 subValues, subClosed, added, gotInfo, downloadDone, seedingDone,
                 closed, pieceDone, fileDone, incompleteFilePieces,
                 incompletePieceFiles, panicked>>
  /\ UNCHANGED <<streamVars, multiVars, restVars>>

\* pieceEnd >= fileBegin && fileEnd >= pieceBegin
Overlap(p, f) ==
  LET pieceBegin == PieceOffset(p)
      pieceEnd == pieceBegin + PieceLength(p) - 1
      fileBegin == FileOffset(f)
      fileEnd == fileBegin + FileLength(f) - 1
  IN  pieceEnd >= fileBegin /\ fileEnd >= pieceBegin

\* the cursor moved past the file found: fileIndex = fileIndex + j + 1
RECURSIVE SweepFilesSkipping(_, _, _, _)
SweepFilesSkipping(p, base, j, acc) ==
  IF base + j >= NumFiles THEN acc
  ELSE LET f == base + j IN
       IF FileLength(f) = 0 THEN SweepFilesSkipping(p, base, j + 1, acc)
       ELSE IF Overlap(p, f)
            THEN SweepFilesSkipping(p, base, j + 1,
                                    [files |-> acc.files \cup {f},
                                     fileIndex |-> base + j + 1])
            ELSE SweepFilesSkipping(p, base, j + 1, acc)

\* for j, file := range e.torrent.Files()[fileIndex:] { ... }, from its j-th
\* iteration on: the files found to overlap piece p and the last j assigned
\* to fileIndex
RECURSIVE SweepFiles(_, _, _, _)
SweepFiles(p, base, j, acc) ==
  IF base + j >= NumFiles THEN acc
  ELSE LET f == base + j IN
       IF FileLength(f) = 0 THEN SweepFiles(p, base, j + 1, acc)
       ELSE IF Overlap(p, f)
            THEN SweepFiles(p, base, j + 1,
                            [files |-> acc.files \cup {f}, fileIndex |-> j])
            ELSE SweepFiles(p, base, j + 1, acc)

\* an iteration that skips a complete or empty piece without closing its
\* signal
RunSweepWithoutClose ==
  /\ ~panicked /\ pc = "sweep"
  /\ i < tNumPieces
  /\ IF PieceLength(i) = 0 \/ i \in tComplete
     THEN UNCHANGED <<pieceDone, incompleteFilePieces, incompletePieceFiles,
                      fileIndex>>
     ELSE LET r == SweepFiles(i, fileIndex, 0,
                              [files |-> {}, fileIndex |-> fileIndex])
          IN  /\ incompletePieceFiles' =
                   [p \in DOMAIN incompletePieceFiles \cup {i} |->
                      IF p = i THEN r.files ELSE incompletePieceFiles[p]]
              /\ incompleteFilePieces' =
                   [f \in DOMAIN incompleteFilePieces |->
                      IF f \in r.files THEN incompleteFilePieces[f] \cup {i}
                      ELSE incompleteFilePieces[f]]
              /\ fileIndex' = r.fileIndex
              /\ UNCHANGED pieceDone
  /\ i' = i + 1
  /\ pc' = IF i + 1 < tNumPieces THEN "sweep" ELSE "checkFiles"
  /\ UNCHANGED <<geometryVars, tGotInfo, tClosed, tComplete, tWritten, subOpen,
                 subValues, subClosed, added, gotInfo, chansReady, downloadDone,
                 seedingDone, closed, fileDone, panicked>>
  /\ UNCHANGED <<streamVars, multiVars, restVars>>

\* one iteration of "for i := 0; i < e.torrent.NumPieces(); i++"
RunSweep ==
  /\ ~panicked /\ pc = "sweep"
  /\ i < tNumPieces
  /\ IF PieceLength(i) = 0 \/ i \in tComplete
     THEN /\ pieceDone' = [pieceDone EXCEPT ![i] = Close(@)]
          /\ UNCHANGED <<incompleteFilePieces, incompletePieceFiles, fileIndex>>
     ELSE LET r == SweepFiles(i, fileIndex, 0,
                              [files |-> {}, fileIndex |-> fileIndex])
          IN  /\ incompletePieceFiles' =
                   [p \in DOMAIN incompletePieceFiles \cup {i} |->
                      IF p = i THEN r.files ELSE incompletePieceFiles[p]]
              /\ incompleteFilePieces' =
                   [f \in DOMAIN incompleteFilePieces |->
                      IF f \in r.files THEN incompleteFilePieces[f] \cup {i}
                      ELSE incompleteFilePieces[f]]
              /\ fileIndex' = r.fileIndex
              /\ UNCHANGED pieceDone
  /\ i' = i + 1
  /\ pc' = IF i + 1 < tNumPieces THEN "sweep" ELSE "checkFiles"
  /\ UNCHANGED <<geometryVars, tGotInfo, tClosed, tComplete, tWritten, subOpen,
                 subValues, subClosed, added, gotInfo, chansReady, downloadDone,
                 seedingDone, closed, fileDone, panicked>>
  /\ UNCHANGED <<streamVars, multiVars, restVars>>

\* the files whose set of incomplete pieces is empty
EmptyFiles(ifp) == {f \in DOMAIN ifp : ifp[f] = {}}

\* the check for files that are already complete left out
RunWithoutCheckFiles ==
  /\ ~panicked /\ pc = "checkFiles"
  /\ pc' = "branch"
  /\ UNCHANGED <<geometryVars, tGotInfo, tClosed, tComplete, tWritten, subOpen,
                 subValues, subClosed, signalVars, localVars, panicked>>
  /\ UNCHANGED <<streamVars, multiVars, restVars>>

\* "Check for files that are already complete"
RunCheckFiles ==
  /\ ~panicked /\ pc = "checkFiles"
  /\ LET finished == EmptyFiles(incompleteFilePieces) IN
     /\ fileDone' = [f \in DOMAIN fileDone |->
                       IF f \in finished THEN Close(fileDone[f]) ELSE fileDone[f]]
     /\ incompleteFilePieces' =
          [f \in DOMAIN incompleteFilePieces \ finished |-> incompleteFilePieces[f]]
  /\ pc' = "branch"
  /\ UNCHANGED <<geometryVars, tGotInfo, tClosed, tComplete, tWritten, subOpen,
                 subValues, subClosed, added, gotInfo, chansReady, downloadDone,
                 seedingDone, closed, pieceDone, incompletePieceFiles,
                 fileIndex, i, panicked>>
  /\ UNCHANGED <<streamVars, multiVars, restVars>>

\* if e.torrent.BytesMissing() == 0 { for piece := range incompletePieceFiles
RunShortPieces ==
  /\ ~panicked /\ pc = "branch"
  /\ BytesMissing = 0
  /\ pieceDone' = [p \in DOMAIN pieceDone |->
                     IF p \in DOMAIN incompletePieceFiles
                     THEN Close(pieceDone[p]) ELSE pieceDone[p]]
  /\ incompletePieceFiles' = EmptyMap
  /\ pc' = "shortFiles"
  /\ UNCHANGED <<geometryVars, tGotInfo, tClosed, tComplete, tWritten, subOpen,
                 subValues, subClosed, added, gotInfo, chansReady, downloadDone,
                 seedingDone, closed, fileDone, incompleteFilePieces,
                 fileIndex, i, panicked>>
  /\ UNCHANGED <<streamVars, multiVars, restVars>>

\* for file := range incompleteFilePieces { close(e.fileDone[file]) ... }
RunShortFiles ==
  /\ ~panicked /\ pc = "shortFiles"
  /\ fileDone' = [f \in DOMAIN fileDone |->
                    IF f \in DOMAIN incompleteFilePieces
                    THEN Close(fileDone[f]) ELSE fileDone[f]]
  /\ incompleteFilePieces' = EmptyMap
  /\ pc' = "shortDone"
  /\ UNCHANGED <<geometryVars, tGotInfo, tClosed, tComplete, tWritten, subOpen,
                 subValues, subClosed, added, gotInfo, chansReady, downloadDone,
                 seedingDone, closed, pieceDone, incompletePieceFiles,
                 fileIndex, i, panicked>>
  /\ UNCHANGED <<streamVars, multiVars, restVars>>

\* close(e.downloadDone) of the short circuit
RunShortDone ==
  /\ ~panicked /\ pc = "shortDone"
  /\ downloadDone' = Close(downloadDone)
  /\ pc' = "seed"
  /\ UNCHANGED <<geometryVars, tGotInfo, tClosed, tComplete, tWritten, subOpen,
                 subValues, subClosed, added, gotInfo, chansReady, seedingDone,
                 closed, pieceDone, fileDone, localVars, panicked>>
  /\ UNCHANGED <<streamVars, multiVars, restVars>>

\* } else { for { ... } }: bytes are missing, monitor the feed
RunMonitor ==
  /\ ~panicked /\ pc = "branch"
  /\ BytesMissing # 0
  /\ pc' = "feed"
  /\ UNCHANGED <<geometryVars, tGotInfo, tClosed, tComplete, tWritten, subOpen,
                 subValues, subClosed, signalVars, localVars, panicked>>
  /\ UNCHANGED <<streamVars, multiVars, restVars>>

\* files := incompletePieceFiles[psc.Index] (a missing key gives no files)
PieceFiles(ipf, idx) == IF idx \in DOMAIN ipf THEN ipf[idx] ELSE {}

\* incompleteFilePieces[f] after delete(incompleteFilePieces[f], psc.Index)
\* (a missing key gives the nil map, which stays empty)
PiecesLeft(ifp, f, idx) == IF f \in DOMAIN ifp THEN ifp[f] \ {idx} ELSE {}

\* the len(incompleteFilePieces[f]) == 0 test left out: every file of the
\* piece is closed
FilesDoneByAnyPiece(ifp, ipf, idx) == PieceFiles(ipf, idx)

\* the files closed by "for f := range files { ... }"
FilesDoneBy(ifp, ipf, idx) ==
  {f \in PieceFiles(ipf, idx) : PiecesLeft(ifp, f, idx) = {}}

\* piece, open := <-sub.Values with a value, and the body of "if psc.Complete"
\* up to the reading of BytesMissing
RunRecv ==
  /\ ~panicked /\ pc = "feed"
  /\ subValues # <<>>
  /\ subValues' = Tail(subValues)
  /\ LET psc == Head(subValues)
         files == PieceFiles(incompletePieceFiles, psc.Index)
         finished == FilesDoneBy(incompleteFilePieces, incompletePieceFiles, psc.Index)
     IN  IF ~psc.Complete
         THEN /\ pc' = "feed"
              /\ UNCHANGED <<pieceDone, fileDone, incompleteFilePieces,
                             incompletePieceFiles, panicked>>
         ELSE /\ pieceDone' = [pieceDone EXCEPT ![psc.Index] = Close(@)]
              /\ IF DoubleClose(pieceDone'[psc.Index])
                 THEN /\ panicked' = TRUE
                      /\ pc' = "panic"
                      /\ UNCHANGED <<fileDone, incompleteFilePieces,
                                     incompletePieceFiles>>
                 ELSE /\ fileDone' = [f \in DOMAIN fileDone |->
                                        IF f \in finished THEN Close(fileDone[f])
                                        ELSE fileDone[f]]
                      /\ incompleteFilePieces' =
                           [f \in DOMAIN incompleteFilePieces \ finished |->
                              PiecesLeft(incompleteFilePieces, f, psc.Index)]
                      /\ incompletePieceFiles' =
                           [p \in DOMAIN incompletePieceFiles |->
                              IF p = psc.Index THEN files \ finished
                              ELSE incompletePieceFiles[p]]
                      /\ panicked' = (\E f \in finished : DoubleClose(fileDone'[f]))
                      /\ pc' = IF panicked' THEN "panic" ELSE "feedCheck"
  /\ UNCHANGED <<geometryVars, tGotInfo, tClosed, tComplete, tWritten, subOpen,
                 subClosed, added, gotInfo, chansReady, downloadDone,
                 seedingDone, closed, fileIndex, i>>
  /\ UNCHANGED <<streamVars, multiVars, restVars>>

\* piece, open := <-sub.Values with !open: close(e.closed); return
RunFeedClosed ==
  /\ ~panicked /\ pc = "feed"
  /\ subValues = <<>> /\ subClosed
  /\ closed' = Close(closed)
  /\ Return
  /\ UNCHANGED <<geometryVars, tGotInfo, tClosed, tComplete, tWritten,
                 subValues, subClosed, added, gotInfo, chansReady, downloadDone,
                 seedingDone, pieceDone, fileDone, localVars, panicked>>
  /\ UNCHANGED <<streamVars, multiVars, restVars>>

\* if e.torrent.BytesMissing() == 0 { close(e.downloadDone); break }
RunCheckMissing ==
  /\ ~panicked /\ pc = "feedCheck"
  /\ IF BytesMissing = 0
     THEN /\ downloadDone' = Close(downloadDone)
          /\ pc' = "seed"
     ELSE /\ pc' = "feed"
          /\ UNCHANGED downloadDone
  /\ UNCHANGED <<geometryVars, tGotInfo, tClosed, tComplete, tWritten, subOpen,
                 subValues, subClosed, added, gotInfo, chansReady, seedingDone,
                 closed, pieceDone, fileDone, localVars, panicked>>
  /\ UNCHANGED <<streamVars, multiVars, restVars>>

\* the test of the seed ratio and of Seeding() left out: the worker always
\* enters the seed ratio loop
RunSeedAlwaysLoop ==
  /\ ~panicked /\ pc = "seed"
  /\ pc' = "seedLoop"
  /\ UNCHANGED <<geometryVars, tGotInfo, tClosed, tComplete, tWritten, subOpen,
                 subValues, subClosed, signalVars, localVars, panicked>>
  /\ UNCHANGED <<streamVars, multiVars, restVars>>

\* if e.seedRatio <= 0.0 || !e.torrent.Seeding() { close(e.seedingDone) }
\* Seeding() is decided by the engine's configuration and state when it is
\* called: the value read is either one.
RunSeed ==
  /\ ~panicked /\ pc = "seed"
  /\ \E seeding \in BOOLEAN :
       IF seedRatio <= 0 \/ ~seeding
       THEN /\ seedingDone' = Close(seedingDone)
            /\ pc' = "waitClosed"
       ELSE /\ pc' = "seedLoop"
            /\ UNCHANGED seedingDone
  /\ UNCHANGED <<geometryVars, tGotInfo, tClosed, tComplete, tWritten, subOpen,
                 subValues, subClosed, added, gotInfo, chansReady, downloadDone,
                 closed, pieceDone, fileDone, localVars, panicked>>
  /\ UNCHANGED <<streamVars, multiVars, restVars>>

\* float64(DataBytesWritten)/float64(BytesCompleted) >= e.seedRatio, with the
\* float division by zero giving +Inf for a positive numerator and NaN for 0.
\* The write counter only grows; the worker reads it on a tick, so the model
\* draws the value read from the values at or above the last one read.
SeedRatioMet(written) ==
  IF BytesCompleted = 0 THEN written > 0
  ELSE written >= seedRatio * BytesCompleted

\* the return after close(e.closed) left out: the worker stays in the seed
\* ratio loop
RunSeedClosedGoesOn ==
  /\ ~panicked /\ pc = "seedLoop"
  /\ tClosed
  /\ closed' = Close(closed)
  /\ UNCHANGED <<geometryVars, tGotInfo, tClosed, tComplete, tWritten, subOpen,
                 subValues, subClosed, added, gotInfo, chansReady, downloadDone,
                 seedingDone, pieceDone, fileDone, pc, localVars, panicked>>
  /\ UNCHANGED <<streamVars, multiVars, restVars>>

\* seedRatioLoop: case <-e.torrent.Closed(): close(e.closed); return
RunSeedClosed ==
  /\ ~panicked /\ pc = "seedLoop"
  /\ tClosed
  /\ closed' = Close(closed)
  /\ Return
  /\ UNCHANGED <<geometryVars, tGotInfo, tClosed, tComplete, tWritten,
                 subValues, subClosed, added, gotInfo, chansReady, downloadDone,
                 seedingDone, pieceDone, fileDone, localVars, panicked>>
  /\ UNCHANGED <<streamVars, multiVars, restVars>>

\* the comparison with e.seedRatio left out: the first tick closes SeedingDone
RunSeedTickNoCompare ==
  /\ ~panicked /\ pc = "seedLoop"
  /\ tWritten' \in tWritten .. MaxWritten
  /\ seedingDone' = Close(seedingDone)
  /\ pc' = "waitClosed"
  /\ UNCHANGED <<geometryVars, tGotInfo, tClosed, tComplete, subOpen,
                 subValues, subClosed, added, gotInfo, chansReady, downloadDone,
                 closed, pieceDone, fileDone, localVars, panicked>>
  /\ UNCHANGED <<streamVars, multiVars, restVars>>

\* seedRatioLoop: case <-time.After(e.seedWait()): the ratio is compared
RunSeedTick ==
  /\ ~panicked /\ pc = "seedLoop"
  /\ tWritten' \in tWritten .. MaxWritten
  /\ IF SeedRatioMet(tWritten')
     THEN /\ seedingDone' = Close(seedingDone)
          /\ pc' = "waitClosed"
     ELSE UNCHANGED <<seedingDone, pc>>
  /\ UNCHANGED <<geometryVars, tGotInfo, tClosed, tComplete, subOpen,
                 subValues, subClosed, added, gotInfo, chansReady, downloadDone,
                 closed, pieceDone, fileDone, localVars, panicked>>
  /\ UNCHANGED <<streamVars, multiVars, restVars>>

\* <-e.torrent.Closed(); close(e.closed); return
RunWaitClosed ==
  /\ ~panicked /\ pc = "waitClosed"
  /\ tClosed
  /\ closed' = Close(closed)
  /\ Return
  /\ UNCHANGED <<geometryVars, tGotInfo, tClosed, tComplete, tWritten,
                 subValues, subClosed, added, gotInfo, chansReady, downloadDone,
                 seedingDone, pieceDone, fileDone, localVars, panicked>>
  /\ UNCHANGED <<streamVars, multiVars, restVars>>

\* the transfer engine
EnvNext ==
  \/ EnvGotInfo
  \/ \E p \in Pieces : EnvPieceComplete(p)
  \/ \E p \in Pieces : EnvPieceStateChange(p)
  \/ \E keep \in BOOLEAN : EnvClose(keep)

\* the tracker's worker
RunNext ==
  \/ RunSubscribe
  \/ RunCloseAdded
  \/ RunGotInfo
  \/ RunClosedBeforeInfo
  \/ RunAlloc
  \/ RunChansReady
  \/ RunSweep
  \/ RunCheckFiles
  \/ RunShortPieces
  \/ RunShortFiles
  \/ RunShortDone
  \/ RunMonitor
  \/ RunRecv
  \/ RunFeedClosed
  \/ RunCheckMissing
  \/ RunSeed
  \/ RunSeedClosed
  \/ RunSeedTick
  \/ RunWaitClosed

\* --------------------------------------------------- TorrentEventer.Events
\* the event types (EventType, numbered by iota)
Added == 0
GotInfo == 1
PieceDone == 2
FileDone == 3
DownloadDone == 4
SeedingDone == 5
Closed == 6

\* Event{Type: t}; Event{Type: PieceDone, Piece: &piece};
\* Event{Type: FileDone, File: &File{&f}}
Event(t) == [Type |-> t, Index |-> -1]
PieceEvent(p) == [Type |-> PieceDone, Index |-> p]
FileEvent(f) == [Type |-> FileDone, Index |-> f]

\* the switch without its last case: Closed falls to the default
EventTypeStringNoClosed(t) ==
  CASE t = Added -> "added"
    [] t = GotInfo -> "gotInfo"
    [] t = PieceDone -> "pieceDone"
    [] t = FileDone -> "fileDone"
    [] t = DownloadDone -> "downloadDone"
    [] t = SeedingDone -> "seedingDone"
    [] OTHER -> "unknown"

\* func (t EventType) String() string: the switch over the seven types and
\* its default
EventTypeString(t) ==
  CASE t = Added -> "added"
    [] t = GotInfo -> "gotInfo"
    [] t = PieceDone -> "pieceDone"
    [] t = FileDone -> "fileDone"
    [] t = DownloadDone -> "downloadDone"
    [] t = SeedingDone -> "seedingDone"
    [] t = Closed -> "closed"
    [] OTHER -> "unknown"

\* func (t EventType) MarshalJSON() (data []byte, err error):
\* return []byte("\"" + t.String() + "\""), nil
EventTypeMarshalJSON(t) ==
  [data |-> "\"" \o EventTypeString(t) \o "\"", err |-> "nil"]

\* the values of EventType the methods are called on: EventType is an int,
\* and a conversion EventType(n) gives values that are none of the seven
EventTypeValues == -MaxEventType .. MaxEventType

\* no call of String or MarshalJSON yet
InitType ==
  /\ stringCall = [called |-> FALSE, t |-> Added, ret |-> ""]
  /\ marshalCall = [called |-> FALSE, t |-> Added, data |-> "", err |-> "nil"]

\* t.String()
CallString(t) ==
  /\ stringCall' = [called |-> TRUE, t |-> t, ret |-> EventTypeString(t)]
  /\ UNCHANGED <<trackerVars, streamVars, multiVars, marshalCall, otherVars,
                 serviceVars, waitVars>>

\* t.MarshalJSON()
CallMarshalJSON(t) ==
  /\ marshalCall' = [called |-> TRUE, t |-> t,
                     data |-> EventTypeMarshalJSON(t).data,
                     err |-> EventTypeMarshalJSON(t).err]
  /\ UNCHANGED <<trackerVars, streamVars, multiVars, stringCall, otherVars,
                 serviceVars, waitVars>>

\* c, ok := e.pieceDone[index] of PieceDone(index) and c, ok := e.fileDone[path]
\* of FileDone(path): ok is whether the key is in the map (files are keyed by
\* their index, the paths of a transfer being distinct)
PieceDoneOk(index) == index \in DOMAIN pieceDone
FileDoneOk(path) == path \in DOMAIN fileDone

\* no call of Events has been made
InitStream ==
  /\ done = FALSE
  /\ events = <<>>
  /\ eventsClosed = FALSE
  /\ mainPc = "idle"
  /\ spawnPc = "idle"
  /\ wg = 0
  /\ piecePc = EmptyMap
  /\ filePc = EmptyMap

\* getPieceIndices(file)
getPieceIndices(f) ==
  IF FileLength(f) = 0 THEN {} ELSE {p \in Pieces : Overlap(p, f)}

\* Events(done) is called on a tracker that newTorrentEventer has returned
\* (it returns once e.added is closed); the goroutine is started
EventsCall ==
  /\ ~panicked /\ mainPc = "idle"
  /\ IsClosed(added)
  /\ mainPc' = "selAdded"
  /\ UNCHANGED <<runVars, panicked, done, events, eventsClosed, spawnPc, wg,
                 piecePc, filePc>>

\* one of the six selects of the main goroutine: stage is its position, sig
\* the signal it expects, and send the position that sends the stage's event
Select(stage, sig, send) ==
  /\ ~panicked /\ mainPc = stage
  /\ \/ /\ IsClosed(sig)
        /\ mainPc' = send
     \/ /\ IsClosed(closed)
        /\ mainPc' = "sendClosed"
     \/ /\ done
        /\ mainPc' = "return"
  /\ UNCHANGED <<runVars, panicked, done, events, eventsClosed, spawnPc, wg,
                 piecePc, filePc>>

EventsSelectAdded == Select("selAdded", added, "sendAdded")
EventsSelectGotInfo == Select("selGotInfo", gotInfo, "sendGotInfo")
EventsSelectDownloadDone ==
  Select("selDownloadDone", downloadDone, "sendDownloadDone")
EventsSelectSeedingDone ==
  Select("selSeedingDone", seedingDone, "sendSeedingDone")

\* the last select has no Closed case of its own: Closed is what it expects
EventsSelectClosed ==
  /\ ~panicked /\ mainPc = "selClosed"
  /\ \/ /\ IsClosed(closed)
        /\ mainPc' = "sendClosed"
     \/ /\ done
        /\ mainPc' = "return"
  /\ UNCHANGED <<runVars, panicked, done, events, eventsClosed, spawnPc, wg,
                 piecePc, filePc>>

\* select { case <-e.chansReady: go func() {...}() ... }
EventsSelectChansReady ==
  /\ ~panicked /\ mainPc = "selChansReady"
  /\ \/ /\ IsClosed(chansReady)
        /\ spawnPc' = "run"
        /\ mainPc' = "wgWait"
     \/ /\ IsClosed(closed)
        /\ mainPc' = "sendClosed"
        /\ UNCHANGED spawnPc
     \/ /\ done
        /\ mainPc' = "return"
        /\ UNCHANGED spawnPc
  /\ UNCHANGED <<runVars, panicked, done, events, eventsClosed, wg,
                 piecePc, filePc>>

\* the goroutine that starts one emitter per piece and one per file
EventsSpawn ==
  /\ ~panicked /\ spawnPc = "run"
  /\ piecePc' = [p \in Pieces |-> "select"]
  /\ filePc' = [f \in Files |-> "select"]
  /\ spawnPc' = "end"
  /\ UNCHANGED <<runVars, panicked, done, events, eventsClosed, mainPc, wg>>

\* wg.Wait() left out: the main goroutine goes on at once
EventsNoWait ==
  /\ ~panicked /\ mainPc = "wgWait"
  /\ mainPc' = "selDownloadDone"
  /\ UNCHANGED <<runVars, panicked, done, events, eventsClosed, spawnPc, wg,
                 piecePc, filePc>>

\* wg.Wait()
EventsWait ==
  /\ ~panicked /\ mainPc = "wgWait"
  /\ wg = 0
  /\ mainPc' = "selDownloadDone"
  /\ UNCHANGED <<runVars, panicked, done, events, eventsClosed, spawnPc, wg,
                 piecePc, filePc>>

\* the return after the send of Closed left out: the main goroutine goes back
\* to its last select
MainSendsClosedAgain ==
  [sendAdded |-> [event |-> Event(Added), next |-> "selGotInfo"],
   sendGotInfo |-> [event |-> Event(GotInfo), next |-> "selChansReady"],
   sendDownloadDone |-> [event |-> Event(DownloadDone), next |-> "selSeedingDone"],
   sendSeedingDone |-> [event |-> Event(SeedingDone), next |-> "selClosed"],
   sendClosed |-> [event |-> Event(Closed), next |-> "selClosed"]]

\* the event the main goroutine is blocked sending, and where it goes on
MainSends ==
  [sendAdded |-> [event |-> Event(Added), next |-> "selGotInfo"],
   sendGotInfo |-> [event |-> Event(GotInfo), next |-> "selChansReady"],
   sendDownloadDone |-> [event |-> Event(DownloadDone), next |-> "selSeedingDone"],
   sendSeedingDone |-> [event |-> Event(SeedingDone), next |-> "selClosed"],
   sendClosed |-> [event |-> Event(Closed), next |-> "return"]]

\* events <- Event{...} of the main goroutine, taken by the subscriber; after
\* GotInfo the goroutine runs wg.Add(len(e.torrent.Files()))
RecvMain ==
  /\ ~panicked /\ mainPc \in DOMAIN MainSends
  /\ ~eventsClosed
  /\ events' = Append(events, MainSends[mainPc].event)
  /\ mainPc' = MainSends[mainPc].next
  /\ wg' = IF mainPc = "sendGotInfo" THEN wg + NumFiles ELSE wg
  /\ UNCHANGED <<runVars, panicked, done, eventsClosed, spawnPc, piecePc, filePc>>

\* a goroutine blocked in a send on events
BlockedSenders ==
  {p \in DOMAIN piecePc : piecePc[p] = "send"} \cup
  {f \in DOMAIN filePc : filePc[f] = "send"}

\* the deferred close(events) of the main goroutine; a goroutine blocked in a
\* send on the channel panics
EventsReturn ==
  /\ ~panicked /\ mainPc = "return"
  /\ eventsClosed' = TRUE
  /\ mainPc' = "end"
  /\ panicked' = (BlockedSenders # {})
  /\ UNCHANGED <<runVars, done, events, spawnPc, wg, piecePc, filePc>>

\* the select of a piece's emitter
PieceSelect(p) ==
  /\ ~panicked /\ p \in DOMAIN piecePc /\ piecePc[p] = "select"
  /\ \/ /\ IsClosed(closed)
        /\ piecePc' = [piecePc EXCEPT ![p] = "end"]
        /\ UNCHANGED panicked
     \/ /\ done
        /\ piecePc' = [piecePc EXCEPT ![p] = "end"]
        /\ UNCHANGED panicked
     \/ /\ IsClosed(pieceDone[p])
        /\ piecePc' = [piecePc EXCEPT ![p] = "send"]
        /\ panicked' = eventsClosed
  /\ UNCHANGED <<runVars, done, events, eventsClosed, mainPc, spawnPc, wg, filePc>>

\* events <- Event{Type: PieceDone, ...}, taken by the subscriber
RecvPiece(p) ==
  /\ ~panicked /\ p \in DOMAIN piecePc /\ piecePc[p] = "send"
  /\ ~eventsClosed
  /\ events' = Append(events, PieceEvent(p))
  /\ piecePc' = [piecePc EXCEPT ![p] = "end"]
  /\ UNCHANGED <<runVars, panicked, done, eventsClosed, mainPc, spawnPc, wg, filePc>>

\* the select of a file's emitter; the deferred wg.Done() runs on return
FileSelect(f) ==
  /\ ~panicked /\ f \in DOMAIN filePc /\ filePc[f] = "select"
  /\ \/ /\ IsClosed(closed)
        /\ filePc' = [filePc EXCEPT ![f] = "end"]
        /\ wg' = wg - 1
     \/ /\ done
        /\ filePc' = [filePc EXCEPT ![f] = "end"]
        /\ wg' = wg - 1
     \/ /\ IsClosed(fileDone[f])
        /\ filePc' = [filePc EXCEPT ![f] = "pieceWait"]
        /\ UNCHANGED wg
  /\ UNCHANGED <<runVars, panicked, done, events, eventsClosed, mainPc, spawnPc,
                 piecePc>>

\* pieceWg.Wait(): every piece of getPieceIndices(f) has its signal closed
FilePieceWait(f) ==
  /\ ~panicked /\ f \in DOMAIN filePc /\ filePc[f] = "pieceWait"
  /\ \A p \in getPieceIndices(f) : IsClosed(pieceDone[p])
  /\ filePc' = [filePc EXCEPT ![f] = "send"]
  /\ panicked' = eventsClosed
  /\ UNCHANGED <<runVars, done, events, eventsClosed, mainPc, spawnPc, wg, piecePc>>

\* events <- Event{Type: FileDone, ...}, taken by the subscriber, and the
\* deferred wg.Done()
RecvFile(f) ==
  /\ ~panicked /\ f \in DOMAIN filePc /\ filePc[f] = "send"
  /\ ~eventsClosed
  /\ events' = Append(events, FileEvent(f))
  /\ filePc' = [filePc EXCEPT ![f] = "end"]
  /\ wg' = wg - 1
  /\ UNCHANGED <<runVars, panicked, done, eventsClosed, mainPc, spawnPc, piecePc>>

\* the subscriber closes its cancellation channel
Cancel ==
  /\ ~panicked /\ ~done
  /\ done' = TRUE
  /\ UNCHANGED <<runVars, panicked, events, eventsClosed, mainPc, spawnPc, wg,
                 piecePc, filePc>>

\* the goroutines of one EventStream, once started
EventsRun ==
  \/ EventsSelectAdded
  \/ EventsSelectGotInfo
  \/ EventsSelectChansReady
  \/ EventsSpawn
  \/ EventsWait
  \/ EventsSelectDownloadDone
  \/ EventsSelectSeedingDone
  \/ EventsSelectClosed
  \/ EventsReturn
  \/ \E p \in Pieces : PieceSelect(p)
  \/ \E f \in Files : FileSelect(f)
  \/ \E f \in Files : FilePieceWait(f)

\* one EventStream
EventsNext ==
  \/ EventsCall
  \/ EventsRun

\* the tracker has nothing left to signal but Closed: the download is done and
\* the seed ratio met
FullyDone ==
  /\ IsClosed(downloadDone) /\ IsClosed(seedingDone) /\ ~IsClosed(closed)
  /\ \A f \in Files : f \in DOMAIN fileDone /\ IsClosed(fileDone[f])

\* Events(done) is called on a tracker that is fully done
EventsCallWhenDone == FullyDone /\ EventsCall

\* the subscriber
SubscriberNext ==
  \/ RecvMain
  \/ \E p \in Pieces : RecvPiece(p)
  \/ \E f \in Files : RecvFile(f)
  \/ Cancel

\* ------------------------------------------- a second call of Events(done)
\* Another subscriber calls Events on the same tracker: the same code runs
\* with its own done, events channel, WaitGroup and goroutines.
InitOther ==
  /\ otherDone = FALSE
  /\ otherEvents = <<>>
  /\ otherEventsClosed = FALSE
  /\ otherMainPc = "idle"
  /\ otherSpawnPc = "idle"
  /\ otherWg = 0
  /\ otherPiecePc = EmptyMap
  /\ otherFilePc = EmptyMap

\* Events(done) is called on a tracker that newTorrentEventer has returned
\* (it returns once e.added is closed); the goroutine is started
OtherEventsCall ==
  /\ ~panicked /\ otherMainPc = "idle"
  /\ IsClosed(added)
  /\ otherMainPc' = "selAdded"
  /\ UNCHANGED <<otherRunVars, panicked, otherDone, otherEvents,
                 otherEventsClosed, otherSpawnPc, otherWg, otherPiecePc,
                 otherFilePc>>

\* one of the six selects of the main goroutine: stage is its position, sig
\* the signal it expects, and send the position that sends the stage's event
OtherSelect(stage, sig, send) ==
  /\ ~panicked /\ otherMainPc = stage
  /\ \/ /\ IsClosed(sig)
        /\ otherMainPc' = send
     \/ /\ IsClosed(closed)
        /\ otherMainPc' = "sendClosed"
     \/ /\ otherDone
        /\ otherMainPc' = "return"
  /\ UNCHANGED <<otherRunVars, panicked, otherDone, otherEvents,
                 otherEventsClosed, otherSpawnPc, otherWg, otherPiecePc,
                 otherFilePc>>

\* the last select has no Closed case of its own: Closed is what it expects
OtherEventsSelectClosed ==
  /\ ~panicked /\ otherMainPc = "selClosed"
  /\ \/ /\ IsClosed(closed)
        /\ otherMainPc' = "sendClosed"
     \/ /\ otherDone
        /\ otherMainPc' = "return"
  /\ UNCHANGED <<otherRunVars, panicked, otherDone, otherEvents,
                 otherEventsClosed, otherSpawnPc, otherWg, otherPiecePc,
                 otherFilePc>>

\* select { case <-e.chansReady: go func() {...}() ... }
OtherEventsSelectChansReady ==
  /\ ~panicked /\ otherMainPc = "selChansReady"
  /\ \/ /\ IsClosed(chansReady)
        /\ otherSpawnPc' = "run"
        /\ otherMainPc' = "wgWait"
     \/ /\ IsClosed(closed)
        /\ otherMainPc' = "sendClosed"
        /\ UNCHANGED otherSpawnPc
     \/ /\ otherDone
        /\ otherMainPc' = "return"
        /\ UNCHANGED otherSpawnPc
  /\ UNCHANGED <<otherRunVars, panicked, otherDone, otherEvents,
                 otherEventsClosed, otherWg, otherPiecePc, otherFilePc>>

\* the goroutine that starts one emitter per piece and one per file
OtherEventsSpawn ==
  /\ ~panicked /\ otherSpawnPc = "run"
  /\ otherPiecePc' = [p \in Pieces |-> "select"]
  /\ otherFilePc' = [f \in Files |-> "select"]
  /\ otherSpawnPc' = "end"
  /\ UNCHANGED <<otherRunVars, panicked, otherDone, otherEvents,
                 otherEventsClosed, otherMainPc, otherWg>>

\* wg.Wait()
OtherEventsWait ==
  /\ ~panicked /\ otherMainPc = "wgWait"
  /\ otherWg = 0
  /\ otherMainPc' = "selDownloadDone"
  /\ UNCHANGED <<otherRunVars, panicked, otherDone, otherEvents,
                 otherEventsClosed, otherSpawnPc, otherWg, otherPiecePc,
                 otherFilePc>>

\* events <- Event{...} of the main goroutine, taken by the subscriber; after
\* GotInfo the goroutine runs wg.Add(len(e.torrent.Files()))
OtherRecvMain ==
  /\ ~panicked /\ otherMainPc \in DOMAIN MainSends
  /\ ~otherEventsClosed
  /\ otherEvents' = Append(otherEvents, MainSends[otherMainPc].event)
  /\ otherMainPc' = MainSends[otherMainPc].next
  /\ otherWg' = IF otherMainPc = "sendGotInfo" THEN otherWg + NumFiles
               ELSE otherWg
  /\ UNCHANGED <<otherRunVars, panicked, otherDone, otherEventsClosed,
                 otherSpawnPc, otherPiecePc, otherFilePc>>

\* a goroutine blocked in a send on events
OtherBlockedSenders ==
  {p \in DOMAIN otherPiecePc : otherPiecePc[p] = "send"} \cup
  {f \in DOMAIN otherFilePc : otherFilePc[f] = "send"}

\* the deferred close(events) of the main goroutine; a goroutine blocked in a
\* send on the channel panics
OtherEventsReturn ==
  /\ ~panicked /\ otherMainPc = "return"
  /\ otherEventsClosed' = TRUE
  /\ otherMainPc' = "end"
  /\ panicked' = (OtherBlockedSenders # {})
  /\ UNCHANGED <<otherRunVars, otherDone, otherEvents, otherSpawnPc, otherWg,
                 otherPiecePc, otherFilePc>>

\* the select of a piece's emitter
OtherPieceSelect(p) ==
  /\ ~panicked /\ p \in DOMAIN otherPiecePc /\ otherPiecePc[p] = "select"
  /\ \/ /\ IsClosed(closed)
        /\ otherPiecePc' = [otherPiecePc EXCEPT ![p] = "end"]
        /\ UNCHANGED panicked
     \/ /\ otherDone
        /\ otherPiecePc' = [otherPiecePc EXCEPT ![p] = "end"]
        /\ UNCHANGED panicked
     \/ /\ IsClosed(pieceDone[p])
        /\ otherPiecePc' = [otherPiecePc EXCEPT ![p] = "send"]
        /\ panicked' = otherEventsClosed
  /\ UNCHANGED <<otherRunVars, otherDone, otherEvents, otherEventsClosed,
                 otherMainPc, otherSpawnPc, otherWg, otherFilePc>>

\* events <- Event{Type: PieceDone, ...}, taken by the subscriber
OtherRecvPiece(p) ==
  /\ ~panicked /\ p \in DOMAIN otherPiecePc /\ otherPiecePc[p] = "send"
  /\ ~otherEventsClosed
  /\ otherEvents' = Append(otherEvents, PieceEvent(p))
  /\ otherPiecePc' = [otherPiecePc EXCEPT ![p] = "end"]
  /\ UNCHANGED <<otherRunVars, panicked, otherDone, otherEventsClosed,
                 otherMainPc, otherSpawnPc, otherWg, otherFilePc>>

\* the select of a file's emitter; the deferred wg.Done() runs on return
OtherFileSelect(f) ==
  /\ ~panicked /\ f \in DOMAIN otherFilePc /\ otherFilePc[f] = "select"
  /\ \/ /\ IsClosed(closed)
        /\ otherFilePc' = [otherFilePc EXCEPT ![f] = "end"]
        /\ otherWg' = otherWg - 1
     \/ /\ otherDone
        /\ otherFilePc' = [otherFilePc EXCEPT ![f] = "end"]
        /\ otherWg' = otherWg - 1
     \/ /\ IsClosed(fileDone[f])
        /\ otherFilePc' = [otherFilePc EXCEPT ![f] = "pieceWait"]
        /\ UNCHANGED otherWg
  /\ UNCHANGED <<otherRunVars, panicked, otherDone, otherEvents,
                 otherEventsClosed, otherMainPc, otherSpawnPc, otherPiecePc>>

\* pieceWg.Wait(): every piece of getPieceIndices(f) has its signal closed
OtherFilePieceWait(f) ==
  /\ ~panicked /\ f \in DOMAIN otherFilePc /\ otherFilePc[f] = "pieceWait"
  /\ \A p \in getPieceIndices(f) : IsClosed(pieceDone[p])
  /\ otherFilePc' = [otherFilePc EXCEPT ![f] = "send"]
  /\ panicked' = otherEventsClosed
  /\ UNCHANGED <<otherRunVars, otherDone, otherEvents, otherEventsClosed,
                 otherMainPc, otherSpawnPc, otherWg, otherPiecePc>>

\* events <- Event{Type: FileDone, ...}, taken by the subscriber, and the
\* deferred wg.Done()
OtherRecvFile(f) ==
  /\ ~panicked /\ f \in DOMAIN otherFilePc /\ otherFilePc[f] = "send"
  /\ ~otherEventsClosed
  /\ otherEvents' = Append(otherEvents, FileEvent(f))
  /\ otherFilePc' = [otherFilePc EXCEPT ![f] = "end"]
  /\ otherWg' = otherWg - 1
  /\ UNCHANGED <<otherRunVars, panicked, otherDone, otherEventsClosed,
                 otherMainPc, otherSpawnPc, otherPiecePc>>

\* the subscriber closes its cancellation channel
OtherCancel ==
  /\ ~panicked /\ ~otherDone
  /\ otherDone' = TRUE
  /\ UNCHANGED <<otherRunVars, panicked, otherEvents, otherEventsClosed,
                 otherMainPc, otherSpawnPc, otherWg, otherPiecePc,
                 otherFilePc>>

\* the goroutines of the other stream
OtherEventsNext ==
  \/ OtherEventsCall
  \/ OtherSelect("selAdded", added, "sendAdded")
  \/ OtherSelect("selGotInfo", gotInfo, "sendGotInfo")
  \/ OtherEventsSelectChansReady
  \/ OtherEventsSpawn
  \/ OtherEventsWait
  \/ OtherSelect("selDownloadDone", downloadDone, "sendDownloadDone")
  \/ OtherSelect("selSeedingDone", seedingDone, "sendSeedingDone")
  \/ OtherEventsSelectClosed
  \/ OtherEventsReturn
  \/ \E p \in Pieces : OtherPieceSelect(p)
  \/ \E f \in Files : OtherFileSelect(f)
  \/ \E f \in Files : OtherFilePieceWait(f)

\* the other subscriber takes an event
OtherRecv ==
  \/ OtherRecvMain
  \/ \E p \in Pieces : OtherRecvPiece(p)
  \/ \E f \in Files : OtherRecvFile(f)

\* ----------------------------------------------------------------- seedWait
\* Durations are counted in milliseconds (time.Duration counts nanoseconds).
Millisecond == 1
Second == 1000

\* percentSeedRatio := float64(DataBytesWritten) / float64(Length()) / seedRatio
\* if percentSeedRatio > 1 { return 0 }
\* return time.Millisecond * time.Duration((1-percentSeedRatio)*1000.0) * 15
\*        + time.Second
\* The quotient is kept exact as written / (length * ratio), both positive
\* here; the conversion of (1 - percentSeedRatio) * 1000.0 to time.Duration
\* drops the fraction, which for a value >= 0 is the integer division below.
seedWait(written, length, ratio) ==
  IF written > length * ratio
  THEN 0
  ELSE Millisecond * (((length * ratio - written) * 1000) \div (length * ratio))
         * 15 + Second

\* a transfer of one byte with seed ratio 1, nothing written, seedWait not
\* called
InitSeedWait ==
  seedWaitCall = [length |-> 1, ratio |-> 1, written |-> 0, called |-> FALSE,
                  at |-> 0, wait |-> 0]

\* the transfer writes one more byte to a peer: Stats().DataBytesWritten grows
SeedWaitWrite ==
  /\ seedWaitCall.written < MaxSeedWritten
  /\ seedWaitCall' = [seedWaitCall EXCEPT !.written = @ + 1]
  /\ UNCHANGED <<trackerVars, streamVars, multiVars, typeVars, otherVars,
                 serviceVars>>

\* e.seedWait(), as the seed ratio loop calls it before every poll
CallSeedWait ==
  /\ seedWaitCall' =
       [seedWaitCall EXCEPT !.called = TRUE,
                            !.at = seedWaitCall.written,
                            !.wait = seedWait(seedWaitCall.written,
                                              seedWaitCall.length,
                                              seedWaitCall.ratio)]
  /\ UNCHANGED <<trackerVars, streamVars, multiVars, typeVars, otherVars,
                 serviceVars>>

\* ------------------------------------------------------------------ Service
\* The service with one transfer. The call of addTorrentSpec has passed
\* svc.client.AddTorrentSpec(spec) and eventer.New has started the tracker's
\* worker; the transfer is in the client until it is dropped.
\* NewService(conf) with conf.DropWhenDone = flag: svc.eventers is empty
NewService(flag) ==
  /\ dropWhenDone = flag
  /\ svcEventers = {}
  /\ svcPc = "idle"
  /\ svcHandled = 0
  /\ dropPc = "idle"

InitService == NewService(FALSE)

\* spec.InfoHash.String() of the transfer
InfoHash == "infoHash"

\* Service.Eventer(infoHash): e, ok := svc.eventers[infoHash]; a missing key
\* gives the not-found error
EventerFound == InfoHash \in svcEventers

\* t.Drop() of the engine: the transfer leaves the client, its Closed()
\* closes and so do its subscriptions; a second Drop changes nothing
TorrentDrop ==
  /\ tClosed' = TRUE
  /\ subClosed' = TRUE
  /\ IF tClosed THEN subValues' = subValues
     ELSE subValues' \in {subValues, <<>>}

\* addTorrentSpec from eventer.New, which returns once e.added is closed, to
\* svc.eventers[spec.InfoHash.String()] = e (the registry has no subscriber:
\* svc.multiEventer.Add(e) hands the tracker to nobody)
ServiceAdd ==
  /\ ~panicked /\ svcPc = "idle"
  /\ IsClosed(added)
  /\ svcEventers' = svcEventers \cup {InfoHash}
  /\ svcPc' = "added"
  /\ UNCHANGED <<dropWhenDone, svcHandled, dropPc>>
  /\ UNCHANGED <<trackerVars, streamVars, multiVars, typeVars, otherVars,
                 waitVars>>

\* the goroutine of addTorrentSpec calls e.Events(background); background
\* is never closed
ServiceEvents == svcPc = "added" /\ EventsCall

\* for event := range e.Events(background): the loop takes the next event
\* once it has handled the one before
ServiceRecv ==
  /\ svcHandled = Len(events)
  /\ \/ RecvMain
     \/ \E p \in Pieces : RecvPiece(p)
     \/ \E f \in Files : RecvFile(f)

\* the test of svc.conf.DropWhenDone left out: the service drops the transfer
\* on every SeedingDone event
ServiceHandleAlwaysDrop ==
  /\ ~panicked /\ svcHandled < Len(events)
  /\ svcHandled' = svcHandled + 1
  /\ IF events[svcHandled + 1].Type = SeedingDone
     THEN TorrentDrop
     ELSE UNCHANGED <<tClosed, subClosed, subValues>>
  /\ UNCHANGED <<dropWhenDone, svcEventers, svcPc, dropPc>>
  /\ UNCHANGED <<geometryVars, tGotInfo, tComplete, tWritten, subOpen,
                 signalVars, pc, localVars, panicked>>
  /\ UNCHANGED <<streamVars, multiVars, typeVars, otherVars,
                 waitVars>>

\* the body of the loop: if event.Type == eventer.SeedingDone &&
\* svc.conf.DropWhenDone { event.Torrent.Drop() } (the webhook is left out)
ServiceHandle ==
  /\ ~panicked /\ svcHandled < Len(events)
  /\ svcHandled' = svcHandled + 1
  /\ IF events[svcHandled + 1].Type = SeedingDone /\ dropWhenDone
     THEN TorrentDrop
     ELSE UNCHANGED <<tClosed, subClosed, subValues>>
  /\ UNCHANGED <<dropWhenDone, svcEventers, svcPc, dropPc>>
  /\ UNCHANGED <<geometryVars, tGotInfo, tComplete, tWritten, subOpen,
                 signalVars, pc, localVars, panicked>>
  /\ UNCHANGED <<streamVars, multiVars, typeVars, otherVars,
                 waitVars>>

\* Service.Drop(infoHash) up to t.Drop(): svc.client.Torrent(h) finds the
\* transfer only while it is in the client (a dropped transfer gives the
\* not-found error and the call returns)
ServiceDrop ==
  /\ ~panicked /\ dropPc = "idle"
  /\ ~tClosed
  /\ TorrentDrop
  /\ dropPc' = "lock"
  /\ UNCHANGED <<dropWhenDone, svcEventers, svcPc, svcHandled>>
  /\ UNCHANGED <<geometryVars, tGotInfo, tComplete, tWritten, subOpen,
                 signalVars, pc, localVars, panicked>>
  /\ UNCHANGED <<streamVars, multiVars, typeVars, otherVars,
                 waitVars>>

\* svc.eventerMu.Lock(); delete(svc.eventers, infoHash); Unlock()
ServiceDropDelete ==
  /\ ~panicked /\ dropPc = "lock"
  /\ svcEventers' = svcEventers \ {InfoHash}
  /\ dropPc' = "end"
  /\ UNCHANGED <<dropWhenDone, svcPc, svcHandled>>
  /\ UNCHANGED <<trackerVars, streamVars, multiVars, typeVars, otherVars,
                 waitVars>>

\* ------------------------------------------------------------ MultiEventer
Eventers == 1 .. MaxEventers
Subscribers == 1 .. MaxSubscribers

\* what a step of the registry leaves alone in the tracker and in its stream
workerVars == <<geometryVars, tGotInfo, tClosed, tComplete, tWritten, subOpen,
                subValues, subClosed, signalVars, pc, localVars, restVars>>

\* newMultiEventer(): no tracker, no subscriber
InitMulti ==
  /\ eventerMap = {}
  /\ eventerChans = {}
  /\ readers = 0
  /\ addPc = [t \in Eventers |-> "idle"]
  /\ addChans = [t \in Eventers |-> {}]
  /\ addChan = [t \in Eventers |-> 0]
  /\ removePc = [t \in Eventers |-> "idle"]
  /\ callPc = [s \in Subscribers |-> "idle"]
  /\ registeredAtCall = [s \in Subscribers |-> {}]
  /\ replayPc = [s \in Subscribers |-> "idle"]
  /\ replayEventers = [s \in Subscribers |-> {}]
  /\ relayPc = [s \in Subscribers |-> "idle"]
  /\ relayed = [s \in Subscribers |-> [t \in Eventers |-> 0]]
  /\ forwardPc = [s \in Subscribers |->
                    [t \in Eventers |-> [select |-> 0, send |-> 0]]]
  /\ combined = [s \in Subscribers |-> [t \in Eventers |-> 0]]
  /\ multiDone = [s \in Subscribers |-> FALSE]
  /\ combinedClosed = [s \in Subscribers |-> FALSE]

\* a goroutine is blocked in e.mutex.Lock()
WriterWaiting ==
  \/ \E t \in Eventers : removePc[t] = "lock"
  \/ \E s \in Subscribers : relayPc[s] = "lock"

\* sync.RWMutex: RLock() returns when no writer holds or awaits the lock (the
\* writers of the registry hold it for one step); Lock() returns when no
\* reader holds it
CanRLock == ~WriterWaiting
CanLock == readers = 0

\* add(t) is called and its e.mutex.RLock() returns; the trackers are numbered
\* in the order in which add takes the lock for them
AddRLock(t) ==
  /\ ~panicked /\ addPc[t] = "idle"
  /\ \A u \in Eventers : u < t => addPc[u] # "idle"
  /\ CanRLock
  /\ readers' = readers + 1
  /\ addPc' = [addPc EXCEPT ![t] = "write"]
  /\ UNCHANGED <<eventerMap, eventerChans, addChans,
                 addChan, removePc, callPc, registeredAtCall, replayPc,
                 replayEventers, relayPc, relayed, forwardPc,
                 combined, multiDone, combinedClosed>>
  /\ UNCHANGED <<workerVars, panicked, streamVars>>

\* the goroutines that range over e.eventerMap under their own read lock
Iterating == {s \in Subscribers : replayPc[s] = "range"}

\* another goroutine holds a read lock and writes or reads e.eventerMap while
\* add(t) writes it
MapRace(t) ==
  \/ \E u \in Eventers \ {t} : addPc[u] = "write"
  \/ Iterating # {}

\* e.eventerMap[id] = t under the read lock, the start of the goroutine that
\* deletes the entry, and the start of the range over e.eventerChans.  A write
\* that races with another access of the map is a data race: the runtime may
\* stop the process (concurrent map writes, concurrent map iteration and map
\* write), and a range in progress may or may not produce the new entry.
AddWrite(t) ==
  /\ ~panicked /\ addPc[t] = "write"
  /\ eventerMap' = eventerMap \cup {t}
  /\ panicked' \in (IF MapRace(t) THEN BOOLEAN ELSE {FALSE})
  /\ \E seen \in SUBSET Iterating :
       replayEventers' = [s \in Subscribers |->
                            IF s \in seen THEN replayEventers[s] \cup {t}
                            ELSE replayEventers[s]]
  /\ removePc' = [removePc EXCEPT ![t] = "wait"]
  /\ addChans' = [addChans EXCEPT ![t] = eventerChans]
  /\ addPc' = [addPc EXCEPT ![t] = "range"]
  /\ UNCHANGED <<eventerChans, readers, addChan, callPc,
                 registeredAtCall, replayPc, relayPc, relayed,
                 forwardPc, combined, multiDone, combinedClosed>>
  /\ UNCHANGED <<workerVars, streamVars>>

\* for _, eventerChan := range e.eventerChans: the next chan, in any order
AddRange(t) ==
  /\ ~panicked /\ addPc[t] = "range"
  /\ \E s \in addChans[t] :
       /\ addChans' = [addChans EXCEPT ![t] = @ \ {s}]
       /\ addChan' = [addChan EXCEPT ![t] = s]
  /\ addPc' = [addPc EXCEPT ![t] = "send"]
  /\ UNCHANGED <<eventerMap, eventerChans, readers, 
                 removePc, callPc, registeredAtCall, replayPc,
                 replayEventers, relayPc, relayed, forwardPc,
                 combined, multiDone, combinedClosed>>
  /\ UNCHANGED <<workerVars, panicked, streamVars>>

\* the range is over: the deferred e.mutex.RUnlock() and the return of add
AddReturn(t) ==
  /\ ~panicked /\ addPc[t] = "range"
  /\ addChans[t] = {}
  /\ readers' = readers - 1
  /\ addPc' = [addPc EXCEPT ![t] = "end"]
  /\ UNCHANGED <<eventerMap, eventerChans, addChans,
                 addChan, removePc, callPc, registeredAtCall, replayPc,
                 replayEventers, relayPc, relayed, forwardPc,
                 combined, multiDone, combinedClosed>>
  /\ UNCHANGED <<workerVars, panicked, streamVars>>

\* go func() { <-t.Closed(); e.mutex.Lock(); ... }(): the transfer of t is
\* closed, its worker closes Closed() and the goroutine waits in Lock()
RemoveWait(t) ==
  /\ ~panicked /\ removePc[t] = "wait"
  /\ removePc' = [removePc EXCEPT ![t] = "lock"]
  /\ UNCHANGED <<eventerMap, eventerChans, readers, addPc,
                 addChans, addChan, callPc, registeredAtCall, replayPc,
                 replayEventers, relayPc, relayed, forwardPc,
                 combined, multiDone, combinedClosed>>
  /\ UNCHANGED <<workerVars, panicked, streamVars>>

\* e.mutex.Lock(); delete(e.eventerMap, id); e.mutex.Unlock()
RemoveDelete(t) ==
  /\ ~panicked /\ removePc[t] = "lock"
  /\ CanLock
  /\ eventerMap' = eventerMap \ {t}
  /\ removePc' = [removePc EXCEPT ![t] = "end"]
  /\ UNCHANGED <<eventerChans, readers, addPc,
                 addChans, addChan, callPc, registeredAtCall, replayPc,
                 replayEventers, relayPc, relayed, forwardPc,
                 combined, multiDone, combinedClosed>>
  /\ UNCHANGED <<workerVars, panicked, streamVars>>

\* Events(done): e.mutex.Lock(); e.eventerChans[id] = eventerChan;
\* e.mutex.Unlock(), the start of the two goroutines and the return; the
\* subscribers are numbered in the order in which they register
MultiEventsRegister(s) ==
  /\ ~panicked /\ callPc[s] = "idle"
  /\ \A r \in Subscribers : r < s => callPc[r] # "idle"
  /\ CanLock
  /\ eventerChans' = eventerChans \cup {s}
  /\ registeredAtCall' = [registeredAtCall EXCEPT ![s] = eventerMap]
  /\ callPc' = [callPc EXCEPT ![s] = "called"]
  /\ replayPc' = [replayPc EXCEPT ![s] = "rlock"]
  /\ relayPc' = [relayPc EXCEPT ![s] = "select"]
  /\ UNCHANGED <<eventerMap, readers, addPc,
                 addChans, addChan, removePc, replayEventers,
                 relayed, forwardPc, combined, multiDone, combinedClosed>>
  /\ UNCHANGED <<workerVars, panicked, streamVars>>

\* e.mutex.RLock() of the replay goroutine returns and its range over
\* e.eventerMap starts
ReplayRLock(s) ==
  /\ ~panicked /\ replayPc[s] = "rlock"
  /\ CanRLock
  /\ readers' = readers + 1
  /\ replayEventers' = [replayEventers EXCEPT ![s] = eventerMap]
  /\ replayPc' = [replayPc EXCEPT ![s] = "range"]
  /\ UNCHANGED <<eventerMap, eventerChans, addPc,
                 addChans, addChan, removePc, callPc, registeredAtCall,
                 relayPc, relayed, forwardPc,
                 combined, multiDone, combinedClosed>>
  /\ UNCHANGED <<workerVars, panicked, streamVars>>

\* the range is over: the deferred e.mutex.RUnlock()
ReplayReturn(s) ==
  /\ ~panicked /\ replayPc[s] = "range"
  /\ replayEventers[s] = {}
  /\ readers' = readers - 1
  /\ replayPc' = [replayPc EXCEPT ![s] = "end"]
  /\ UNCHANGED <<eventerMap, eventerChans, addPc,
                 addChans, addChan, removePc, callPc, registeredAtCall,
                 replayEventers, relayPc, relayed, forwardPc,
                 combined, multiDone, combinedClosed>>
  /\ UNCHANGED <<workerVars, panicked, streamVars>>

\* case t, ok := <-eventerChan of the relay: tracker t is taken and
\* go func() { for event := range t.Events(done) { events <- event } }()
\* is started
Relay(s, t) ==
  /\ relayed' = [relayed EXCEPT ![s][t] = @ + 1]
  /\ forwardPc' = [forwardPc EXCEPT ![s][t].select = @ + 1]
  /\ UNCHANGED <<eventerMap, eventerChans, readers, 
                 removePc, callPc, registeredAtCall, relayPc,
                 combined, multiDone, combinedClosed>>
  /\ UNCHANGED <<workerVars, panicked, streamVars>>

\* for _, eventer := range e.eventerMap { eventerChan <- eventer }: the
\* relay takes the next tracker of the replay, trackers coming in any order
RelayFromReplay(s, t) ==
  /\ ~panicked /\ relayPc[s] = "select"
  /\ replayPc[s] = "range" /\ t \in replayEventers[s]
  /\ Relay(s, t)
  /\ replayEventers' = [replayEventers EXCEPT ![s] = @ \ {t}]
  /\ UNCHANGED <<addPc, addChans, addChan, replayPc>>

\* the relay takes the tracker that add(t) is sending
RelayFromAdd(s, t) ==
  /\ ~panicked /\ relayPc[s] = "select"
  /\ addPc[t] = "send" /\ addChan[t] = s
  /\ Relay(s, t)
  /\ addPc' = [addPc EXCEPT ![t] = "range"]
  /\ UNCHANGED <<addChans, addChan, replayPc, replayEventers>>

\* case <-done of the relay: it returns and its deferred function waits in
\* e.mutex.Lock()
RelayDone(s) ==
  /\ ~panicked /\ relayPc[s] = "select"
  /\ multiDone[s]
  /\ relayPc' = [relayPc EXCEPT ![s] = "lock"]
  /\ UNCHANGED <<eventerMap, eventerChans, readers, addPc,
                 addChans, addChan, removePc, callPc, registeredAtCall,
                 replayPc, replayEventers, relayed, forwardPc,
                 combined, multiDone, combinedClosed>>
  /\ UNCHANGED <<workerVars, panicked, streamVars>>

\* a forwarder is blocked in events <- event
ForwardersSending(s) == \E t \in Eventers : forwardPc[s][t].send > 0

\* e.mutex.Lock(); delete(e.eventerChans, id); e.mutex.Unlock(); close(events):
\* a forwarder blocked in a send on events panics
RelayDelete(s) ==
  /\ ~panicked /\ relayPc[s] = "lock"
  /\ CanLock
  /\ eventerChans' = eventerChans \ {s}
  /\ combinedClosed' = [combinedClosed EXCEPT ![s] = TRUE]
  /\ panicked' = ForwardersSending(s)
  /\ relayPc' = [relayPc EXCEPT ![s] = "end"]
  /\ UNCHANGED <<eventerMap, readers, addPc,
                 addChans, addChan, removePc, callPc, registeredAtCall,
                 replayPc, replayEventers, relayed, forwardPc,
                 combined, multiDone>>
  /\ UNCHANGED <<workerVars, streamVars>>

\* the stream of t.Events(done) hands its first event to a forwarder (Added()
\* is closed on every tracker given to add), which sends it on events; a send
\* on the closed channel panics.  What follows the first event of a stream is
\* left out.
ForwardEvent(s, t) ==
  /\ ~panicked /\ forwardPc[s][t].select > 0
  /\ forwardPc' = [forwardPc EXCEPT ![s][t] =
                     [select |-> @.select - 1, send |-> @.send + 1]]
  /\ panicked' = combinedClosed[s]
  /\ UNCHANGED <<eventerMap, eventerChans, readers, addPc,
                 addChans, addChan, removePc, callPc, registeredAtCall,
                 replayPc, replayEventers, relayPc, relayed,
                 combined, multiDone, combinedClosed>>
  /\ UNCHANGED <<workerVars, streamVars>>

\* the stream of t.Events(done) takes its done case: it ends without an
\* event and so does the forwarder
ForwardDone(s, t) ==
  /\ ~panicked /\ forwardPc[s][t].select > 0
  /\ multiDone[s]
  /\ forwardPc' = [forwardPc EXCEPT ![s][t].select = @ - 1]
  /\ UNCHANGED <<eventerMap, eventerChans, readers, addPc,
                 addChans, addChan, removePc, callPc, registeredAtCall,
                 replayPc, replayEventers, relayPc, relayed,
                 combined, multiDone, combinedClosed>>
  /\ UNCHANGED <<workerVars, panicked, streamVars>>

\* the subscriber takes an event of tracker t from its combined stream
MultiRecv(s, t) ==
  /\ ~panicked /\ forwardPc[s][t].send > 0
  /\ ~combinedClosed[s]
  /\ forwardPc' = [forwardPc EXCEPT ![s][t].send = @ - 1]
  /\ combined' = [combined EXCEPT ![s][t] = @ + 1]
  /\ UNCHANGED <<eventerMap, eventerChans, readers, addPc,
                 addChans, addChan, removePc, callPc, registeredAtCall,
                 replayPc, replayEventers, relayPc, relayed,
                 multiDone, combinedClosed>>
  /\ UNCHANGED <<workerVars, panicked, streamVars>>

\* the subscriber closes its cancellation channel
MultiCancel(s) ==
  /\ ~panicked /\ callPc[s] = "called" /\ ~multiDone[s]
  /\ multiDone' = [multiDone EXCEPT ![s] = TRUE]
  /\ UNCHANGED <<eventerMap, eventerChans, readers, addPc,
                 addChans, addChan, removePc, callPc, registeredAtCall,
                 replayPc, replayEventers, relayPc, relayed,
                 forwardPc, combined, combinedClosed>>
  /\ UNCHANGED <<workerVars, panicked, streamVars>>

\* the goroutines of add(t) and the one that deletes t
AddNext(t) ==
  \/ AddRLock(t)
  \/ AddWrite(t)
  \/ AddRange(t)
  \/ AddReturn(t)
RemoveNext(t) ==
  \/ RemoveWait(t)
  \/ RemoveDelete(t)

\* the goroutines of a subscriber's Events(done)
ReplayNext(s) ==
  \/ ReplayRLock(s)
  \/ ReplayReturn(s)
RelayNext(s) ==
  \/ \E t \in Eventers : RelayFromReplay(s, t)
  \/ \E t \in Eventers : RelayFromAdd(s, t)
  \/ RelayDone(s)
  \/ RelayDelete(s)
ForwardNext(s) ==
  \/ \E t \in Eventers : ForwardEvent(s, t)
  \/ \E t \in Eventers : ForwardDone(s, t)

\* the registry, its callers and its subscribers
MultiNext ==
  \/ \E t \in Eventers : AddNext(t)
  \/ \E t \in Eventers : RemoveNext(t)
  \/ \E s \in Subscribers : MultiEventsRegister(s)
  \/ \E s \in Subscribers : ReplayNext(s)
  \/ \E s \in Subscribers : RelayNext(s)
  \/ \E s \in Subscribers : ForwardNext(s)
  \/ \E s \in Subscribers, t \in Eventers : MultiRecv(s, t)
  \/ \E s \in Subscribers : MultiCancel(s)

\* ------------------------------------------------------- specifications
\* the tracker alone, for every transfer of the bounds
InitTracker == InitTorrent /\ InitEventer /\ InitStream /\ InitMulti /\ InitType /\ InitOther /\ InitService
  /\ InitSeedWait
NextTracker == EnvNext \/ RunNext
SpecTracker == InitTracker /\ [][NextTracker]_vars

\* the transfers a stream is checked on: each is <<file lengths, piece
\* length, number of pieces, seed ratio>>
StreamTransfers ==
  { <<(<<1, 1>>), 2, 1, 0>>,    \* two files in one piece
    <<(<<2>>), 1, 2, 0>>,       \* one file over two pieces
    <<(<<0, 1>>), 1, 1, 0>>,    \* a file of length 0
    <<(<<1>>), 1, 1, 1>> }      \* a seed ratio to reach

Init ==
  /\ InitTorrent /\ InitEventer /\ InitStream /\ InitMulti /\ InitType /\ InitOther /\ InitService
  /\ InitSeedWait
  /\ <<tFiles, tPieceLength, tNumPieces, seedRatio>> \in StreamTransfers
Next ==
  \/ EnvNext
  \/ RunNext
  \/ EventsNext
  \/ SubscriberNext
Spec == Init /\ [][Next]_vars

\* a stream that is started on a tracker that is fully done
NextLate ==
  \/ EnvNext
  \/ RunNext
  \/ EventsCallWhenDone
  \/ EventsRun
  \/ SubscriberNext
SpecLate == Init /\ [][NextLate]_vars

\* the tracker of a transfer of two files of 10 bytes and two pieces of 10
\* bytes, none of them complete
InitScenario ==
  /\ tFiles = <<10, 10>>
  /\ tPieceLength = 10
  /\ tNumPieces = 2
  /\ tGotInfo \in BOOLEAN
  /\ tComplete = {}
  /\ tClosed = FALSE
  /\ tWritten = 0
  /\ subOpen = FALSE
  /\ subValues = <<>>
  /\ subClosed = FALSE
  /\ InitEventer /\ InitStream /\ InitMulti /\ InitType /\ InitOther /\ InitService
  /\ InitSeedWait
SpecScenario == InitScenario /\ [][NextTracker]_vars

\* the registry alone: the tracker and the stream of the other
\* specifications do not run
InitMultiOnly ==
  /\ InitTorrent /\ InitEventer /\ InitStream /\ InitMulti /\ InitType /\ InitOther /\ InitService
  /\ InitSeedWait
  /\ <<tFiles, tPieceLength, tNumPieces, seedRatio>> = <<(<<1>>), 1, 1, 0>>
  /\ ~tGotInfo
SpecMulti == InitMultiOnly /\ [][MultiNext]_vars

\* the Go scheduler runs every goroutine that has a step to take, and the
\* subscribers keep receiving
MultiFairness ==
  /\ \A t \in Eventers : WF_vars(AddNext(t)) /\ WF_vars(RemoveNext(t))
  /\ \A s \in Subscribers :
       /\ WF_vars(MultiEventsRegister(s))
       /\ WF_vars(ReplayNext(s)) /\ WF_vars(RelayNext(s))
       /\ WF_vars(ForwardNext(s))
       /\ WF_vars(\E t \in Eventers : MultiRecv(s, t))
SpecMultiFair == SpecMulti /\ MultiFairness

\* the tracker on the same transfers, with a worker goroutine that the Go
\* scheduler keeps running while it has a step to take
SpecFair == Init /\ [][NextTracker]_vars /\ WF_vars(RunNext)

\* the worker up to the end of its sweep over the pieces, on transfers with
\* more files and longer pieces, the metadata ready and any set of pieces
\* complete; pieces go on completing while the worker runs
SweepFileLists ==
  UNION {[1 .. n -> 0 .. SweepMaxFileLen] : n \in 1 .. SweepMaxFiles}
InitSweep ==
  /\ tFiles \in SweepFileLists
  /\ tPieceLength \in 1 .. SweepMaxPieceLen
  /\ tNumPieces \in PieceCounts(SumTo(tFiles, Len(tFiles)), tPieceLength)
  /\ tNumPieces <= SweepMaxPieces
  /\ tGotInfo = TRUE
  /\ tComplete \in SUBSET DataPieces
  /\ tClosed = FALSE
  /\ tWritten = 0
  /\ subOpen = FALSE
  /\ subValues = <<>>
  /\ subClosed = FALSE
  /\ InitEventer /\ seedRatio = 0
  /\ InitStream /\ InitMulti /\ InitType /\ InitOther /\ InitService
  /\ InitSeedWait
NextSweep ==
  \/ RunSubscribe
  \/ RunCloseAdded
  \/ RunGotInfo
  \/ RunAlloc
  \/ RunChansReady
  \/ RunSweep
  \/ \E p \in Pieces : EnvPieceComplete(p)
SpecSweep == InitSweep /\ [][NextSweep]_vars

\* the tracker with a worker goroutine that is scheduled as long as it can
\* take a step, and whose select in the seed ratio loop takes its Closed case
\* if that case stays ready (Go picks among the ready cases at random)
SpecTrackerFair ==
  SpecTracker /\ WF_vars(RunNext) /\ WF_vars(RunSeedClosed)

\* two streams on the tracker of a transfer of one file in one piece that is
\* complete when it is added; the transfer may be closed at any time. The
\* goroutines are scheduled as long as they can take a step and the other
\* subscriber keeps receiving; the first subscriber may stop receiving.
InitTwoStreams ==
  /\ InitTracker
  /\ <<tFiles, tPieceLength, tNumPieces, seedRatio>> = <<(<<1>>), 1, 1, 0>>
  /\ tGotInfo /\ tComplete = DataPieces
\* the steps of run for such a transfer: nothing is missing after the sweep,
\* so the feed is never read, and with seed ratio 0 there is no seed loop
RunCompleteNext ==
  \/ RunSubscribe
  \/ RunCloseAdded
  \/ RunGotInfo
  \/ RunClosedBeforeInfo
  \/ RunAlloc
  \/ RunChansReady
  \/ RunSweep
  \/ RunCheckFiles
  \/ RunShortPieces
  \/ RunShortFiles
  \/ RunShortDone
  \/ RunSeed
  \/ RunWaitClosed
NextTwoStreams ==
  \/ \E keep \in BOOLEAN : EnvClose(keep)
  \/ RunCompleteNext
  \/ EventsNext
  \/ SubscriberNext
  \/ OtherEventsNext
  \/ OtherRecv
  \/ OtherCancel
SpecTwoStreams ==
  /\ InitTwoStreams /\ [][NextTwoStreams]_vars
  /\ WF_vars(RunCompleteNext) /\ WF_vars(EventsNext)
  /\ WF_vars(OtherEventsNext) /\ WF_vars(OtherRecv)

\* the service, the tracker of its transfer and the engine
InitServiceSpec ==
  /\ InitTorrent /\ InitEventer /\ InitStream /\ InitMulti /\ InitType
  /\ InitOther /\ InitSeedWait
  /\ <<tFiles, tPieceLength, tNumPieces, seedRatio>> \in StreamTransfers
  /\ \E flag \in BOOLEAN : NewService(flag)
NextService ==
  \/ EnvGotInfo
  \/ \E p \in Pieces : EnvPieceComplete(p)
  \/ RunNext
  \/ ServiceAdd
  \/ ServiceEvents
  \/ EventsRun
  \/ ServiceRecv
  \/ ServiceHandle
  \/ ServiceDrop
  \/ ServiceDropDelete
SpecService == InitServiceSpec /\ [][NextService]_vars

\* the goroutines of the service are scheduled as long as they can take a
\* step; nothing obliges a client to call Service.Drop
SpecServiceFair ==
  /\ SpecService
  /\ WF_vars(RunNext) /\ WF_vars(EventsRun)
  /\ WF_vars(ServiceAdd) /\ WF_vars(ServiceEvents)
  /\ WF_vars(ServiceRecv) /\ WF_vars(ServiceHandle)
  /\ WF_vars(ServiceDropDelete)

\* seedWait called again and again on a transfer of any length and any
\* positive seed ratio of the bounds while the bytes written grow; the
\* tracker, the stream and the registry do not run
InitSeedWaitSpec ==
  /\ InitTorrent /\ InitEventer /\ InitStream /\ InitMulti /\ InitType
  /\ InitOther /\ InitService
  /\ <<tFiles, tPieceLength, tNumPieces, seedRatio>> = <<(<<1>>), 1, 1, 0>>
  /\ ~tGotInfo
  /\ \E length \in 1 .. MaxSeedLength, ratio \in 1 .. MaxSeedRatio :
       seedWaitCall = [length |-> length, ratio |-> ratio, written |-> 0,
                       called |-> FALSE, at |-> 0, wait |-> 0]
NextSeedWait == SeedWaitWrite \/ CallSeedWait
SpecSeedWait == InitSeedWaitSpec /\ [][NextSeedWait]_vars

\* the methods of EventType, called on any value in any order; the tracker,
\* the stream and the registry do not run
NextType ==
  \/ \E t \in EventTypeValues : CallString(t)
  \/ \E t \in EventTypeValues : CallMarshalJSON(t)
SpecType == InitMultiOnly /\ [][NextType]_vars

\* the tracker and one stream, with goroutines that the Go scheduler keeps
\* running while they have a step to take; the transfer and the subscriber
\* are free to act or not
SpecStreamFair == Spec /\ WF_vars(RunNext) /\ WF_vars(EventsNext)

\* ------------------------------------------------------------- properties
\* the pieces that hold a byte of file f: both ranges hold a byte, and each
\* starts before the other ends
OverlappingPieces(f) ==
  LET fo == FileOffset(f)
      fe == fo + FileLength(f)
  IN  {p \in Pieces : /\ PieceLength(p) > 0 /\ fe > fo
                      /\ PieceOffset(p) < fe
                      /\ fo < PieceOffset(p) + PieceLength(p)}

\* C1: DownloadDone is never closed while a file's FileDone signal is open.
C1_DownloadDoneAfterFileDone ==
  IsClosed(downloadDone) => \A f \in DOMAIN fileDone : IsClosed(fileDone[f])

\* C2: every completion signal of a tracker is closed at most once; a second
\* close of a closed signal is never performed.
C2_ClosedAtMostOnce ==
  /\ added <= 1 /\ gotInfo <= 1 /\ chansReady <= 1
  /\ downloadDone <= 1 /\ seedingDone <= 1 /\ closed <= 1
  /\ \A p \in DOMAIN pieceDone : pieceDone[p] <= 1
  /\ \A f \in DOMAIN fileDone : fileDone[f] <= 1

\* C3: if a file's FileDone signal is closed, the PieceDone signal of every
\* piece of non-zero length that overlaps the file is closed.
C3_FileDoneImpliesPieceDone ==
  \A f \in DOMAIN fileDone :
    IsClosed(fileDone[f]) =>
      \A p \in OverlappingPieces(f) : IsClosed(pieceDone[p])

\* a file over more than one piece is closed by the feed loop
C3_Witness ==
  /\ pc = "feedCheck"
  /\ \E f \in DOMAIN fileDone :
       /\ IsClosed(fileDone[f])
       /\ Cardinality(OverlappingPieces(f)) >= 2

\* positions of the subscriber's sequence, and the type received at one
Pos == 1 .. Len(events)
TypeAt(k) == events[k].Type
Received(e) == \E k \in Pos : events[k] = e
ReceivedType(t) == \E k \in Pos : TypeAt(k) = t

\* the lifecycle stage of an event type
StageOf(t) ==
  CASE t = Added -> 1
    [] t = GotInfo -> 2
    [] t = PieceDone -> 3
    [] t = FileDone -> 3
    [] t = DownloadDone -> 4
    [] t = SeedingDone -> 5
    [] t = Closed -> 6

\* C4: leaving PieceDone aside, the events of a stream come in stage order:
\* Added, GotInfo, the FileDone events, DownloadDone, SeedingDone, Closed.
C4_StageOrder ==
  \A a, b \in Pos :
    (a < b /\ TypeAt(a) # PieceDone /\ TypeAt(b) # PieceDone) =>
      \/ StageOf(TypeAt(a)) < StageOf(TypeAt(b))
      \/ TypeAt(a) = FileDone /\ TypeAt(b) = FileDone

\* a stream that delivered every stage, with two FileDone events
C4_Witness ==
  /\ Len(events) >= 7
  /\ TypeAt(Len(events)) = Closed
  /\ ReceivedType(SeedingDone)
  /\ Cardinality({k \in Pos : TypeAt(k) = FileDone}) = 2

\* C5: every PieceDone event comes after GotInfo and before DownloadDone
\* (hence before SeedingDone and Closed).
C5_PieceDoneBeforeDownloadDone ==
  \A b \in Pos :
    TypeAt(b) = PieceDone =>
      /\ \E a \in Pos : a < b /\ TypeAt(a) = GotInfo
      /\ \A a \in Pos : a < b => TypeAt(a) \notin {DownloadDone, SeedingDone, Closed}

\* C6: the PieceDone event of every piece overlapping a file comes before the
\* FileDone event of the file.
C6_PieceEventBeforeFileEvent ==
  \A b \in Pos :
    TypeAt(b) = FileDone =>
      \A p \in OverlappingPieces(events[b].Index) :
        \E a \in Pos : a < b /\ events[a] = PieceEvent(p)

\* C7: when DownloadDone is emitted, a FileDone event has been emitted for
\* every file of the transfer.
C7_DownloadDoneAfterEveryFileDone ==
  \A b \in Pos :
    TypeAt(b) = DownloadDone =>
      \A f \in Files : \E a \in Pos : a < b /\ events[a] = FileEvent(f)

\* C8: if Closed is closed while the signal a stage expects is open, the
\* stream emits no event of that stage or of a later stage.
C8_ClosedSupersedes ==
  IsClosed(closed) =>
    /\ ~IsClosed(gotInfo) =>
         \A k \in Pos : TypeAt(k) \in {Added, Closed}
    /\ \A f \in Files :
         (f \notin DOMAIN fileDone \/ ~IsClosed(fileDone[f])) =>
           /\ ~Received(FileEvent(f))
           /\ ~ReceivedType(DownloadDone)
           /\ ~ReceivedType(SeedingDone)
    /\ ~IsClosed(downloadDone) =>
         ~ReceivedType(DownloadDone) /\ ~ReceivedType(SeedingDone)
    /\ ~IsClosed(seedingDone) => ~ReceivedType(SeedingDone)

\* C9: once the cancellation input has fired, the stream emits no event.
C9_SilentAfterCancel == [][done => events' = events]_vars

\* C10: Closed, when emitted, is the last element of the sequence.
C10_ClosedIsLast ==
  \A k \in Pos : TypeAt(k) = Closed => k = Len(events)

\* the transfer went away without its metadata
ClosedBeforeInfo == tClosed /\ ~tGotInfo

\* C11: if the transfer closes before its metadata is ready, GotInfo, the
\* piece and file signals, DownloadDone and SeedingDone are never closed, and
\* Closed is eventually closed.
C11_ClosedBeforeInfo ==
  /\ [](ClosedBeforeInfo =>
          /\ gotInfo = 0 /\ downloadDone = 0 /\ seedingDone = 0
          /\ \A p \in DOMAIN pieceDone : pieceDone[p] = 0
          /\ \A f \in DOMAIN fileDone : fileDone[f] = 0)
  /\ (ClosedBeforeInfo ~> IsClosed(closed))

\* the worker has returned from the Closed case of its first select
C11_Witness ==
  /\ ClosedBeforeInfo
  /\ pc = "done"
  /\ IsClosed(closed) /\ gotInfo = 0

\* C12: when newTorrentEventer returns (it waits for Added), Added is closed
\* and the worker's subscription to the piece feed is registered, and it stays
\* registered until the worker returns; every piece that completes from then
\* on is published into the worker's feed.
C12_SubscribedBeforeAdded ==
  [][/\ IsClosed(added') => (subOpen' \/ pc' = "done")
     /\ (IsClosed(added) /\ tComplete' # tComplete) =>
          \E p \in Pieces :
            subValues' = Append(subValues, [Index |-> p, Complete |-> TRUE])]_vars

\* a piece completed after the constructor returned and its notification is
\* queued for a worker that has not yet looked at the transfer
C12_Witness ==
  /\ IsClosed(added) /\ pc = "waitInfo"
  /\ subValues # <<>> /\ Head(subValues).Complete
  /\ Head(subValues).Index \in tComplete

\* the worker takes a value from the piece feed
FeedReceive == Len(subValues') < Len(subValues) /\ tClosed' = tClosed

\* C13: a piece that is reported complete (or has length 0) when the worker
\* inspects it has its PieceDone signal closed by that inspection, and the
\* worker takes its first value from the feed only after every piece has been
\* inspected.
C13_InspectedPiecesClosedBeforeFeed ==
  [][/\ (pc = "sweep" /\ i' = i + 1
           /\ (PieceLength(i) = 0 \/ i \in tComplete)) =>
          IsClosed(pieceDone'[i])
     /\ FeedReceive =>
          /\ pc = "feed" /\ i = tNumPieces
          /\ \A p \in Pieces \ DOMAIN incompletePieceFiles :
               IsClosed(pieceDone[p])]_vars

\* the worker has taken a value from the feed, and a piece holding data was
\* found complete by the inspection
C13_Witness ==
  /\ pc = "feedCheck"
  /\ \E p \in DataPieces \ DOMAIN incompletePieceFiles : IsClosed(pieceDone[p])

\* the worker is past its initialization: the channels are allocated, the
\* pieces inspected and the files checked
InitializationDone == IsClosed(chansReady) /\ pc \notin {"sweep", "checkFiles"}

\* the FileDone signal of every file of length 0 is closed
EmptyFilesDone ==
  \A f \in Files :
    FileLength(f) = 0 => (f \in DOMAIN fileDone /\ IsClosed(fileDone[f]))

\* C14: the FileDone signal of every file of length 0 is closed by the end of
\* the worker's initialization, whatever pieces are complete, and so before
\* any value is taken from the piece feed.
C14_EmptyFilesDoneAtInit ==
  [][/\ InitializationDone' => EmptyFilesDone'
     /\ FeedReceive => EmptyFilesDone]_vars

\* a file of length 0 is done while no piece is complete and the worker waits
\* on the feed
C14_Witness ==
  /\ pc = "feed" /\ tComplete = {} /\ DataPieces # {}
  /\ \E f \in Files : FileLength(f) = 0 /\ IsClosed(fileDone[f])

\* the worker closes SeedingDone at once: it reads no write counter and waits
\* for nothing
SeedingDoneAtOnce ==
  /\ seedingDone' = Close(seedingDone)
  /\ pc' = "waitClosed"
  /\ tWritten' = tWritten /\ closed' = closed

\* C15: with a seed ratio <= 0 (or a transfer that does not seed) the signal
\* action of the worker that follows the close of DownloadDone is the close of
\* SeedingDone, made without reading the write counter and without waiting.
C15_SeedingDoneRightAfterDownloadDone ==
  [][/\ (pc = "seed" /\ pc' # "seed" /\ seedRatio <= 0) => SeedingDoneAtOnce
     /\ (pc = "seed" /\ pc' \notin {"seed", "seedLoop"}) => SeedingDoneAtOnce
     /\ (seedRatio <= 0 /\ IsClosed(downloadDone') /\ ~IsClosed(seedingDone')) =>
          pc' = "seed"]_vars

\* with a seed ratio of 0, SeedingDone is closed while the transfer is open
\* and nothing was read from the write counter
C15_Witness ==
  /\ seedRatio <= 0 /\ pc = "waitClosed"
  /\ IsClosed(downloadDone) /\ IsClosed(seedingDone)
  /\ ~tClosed /\ tWritten = 0

\* the worker is between two notifications, or past the monitoring loop
BetweenNotifications ==
  /\ IsClosed(chansReady)
  /\ pc \in {"feed", "seed", "seedLoop", "waitClosed", "done"}

\* C16: two files of 10 bytes, two pieces of 10 bytes, nothing complete.  Once
\* the worker has processed the completion of piece 0 only, PieceDone(0) and
\* FileDone(file 0) are closed, FileDone(file 1) and DownloadDone are open;
\* once it has processed the completion of piece 1 too, FileDone(file 1) and
\* DownloadDone are closed as well.
C16_TwoFilesTwoPieces ==
  BetweenNotifications =>
    /\ (IsClosed(pieceDone[0]) /\ ~IsClosed(pieceDone[1])) =>
         /\ IsClosed(fileDone[0])
         /\ ~IsClosed(fileDone[1]) /\ ~IsClosed(downloadDone)
    /\ (IsClosed(pieceDone[0]) /\ IsClosed(pieceDone[1])) =>
         /\ IsClosed(fileDone[0]) /\ IsClosed(fileDone[1])
         /\ IsClosed(downloadDone)

\* the events received, PieceDone aside, are the first ones of Added, GotInfo,
\* one FileDone per file, DownloadDone, SeedingDone
MilestonesInOrder ==
  /\ C4_StageOrder
  /\ ~ReceivedType(Closed)
  /\ \A a, b \in Pos :
       (a # b /\ TypeAt(a) = FileDone /\ TypeAt(b) = FileDone) =>
         events[a].Index # events[b].Index
  /\ ReceivedType(GotInfo) => ReceivedType(Added)
  /\ ReceivedType(FileDone) => ReceivedType(GotInfo)
  /\ ReceivedType(DownloadDone) =>
       ReceivedType(GotInfo) /\ \A f \in Files : Received(FileEvent(f))
  /\ ReceivedType(SeedingDone) => ReceivedType(DownloadDone)

\* C17: a subscriber of a tracker that is fully done when Events is called
\* receives Added, GotInfo, one FileDone per file, DownloadDone, SeedingDone
\* in that order (PieceDone events aside), and once it has received
\* SeedingDone it receives nothing until Closed is closed.
C17_LateSubscriber ==
  [][/\ (~done' /\ ~IsClosed(closed')) => MilestonesInOrder'
     /\ (~done /\ ~IsClosed(closed) /\ ReceivedType(SeedingDone)) =>
          events' = events]_vars

\* C18: when a subscriber has called Events and has not cancelled, and
\* add(t) is called afterwards, a stream over t is started for the subscriber
\* and an event of t is eventually delivered on its combined stream, the
\* subscriber receiving for as long as it does not cancel.
AddAfterEvents(s, t) ==
  addPc[t] = "write" /\ s \in eventerChans /\ ~multiDone[s]
C18_AddedLaterIsDelivered ==
  \A s \in Subscribers, t \in Eventers :
    AddAfterEvents(s, t) ~> (combined[s][t] >= 1 \/ multiDone[s])

\* C19: every tracker that is in the registry when Events registers the
\* subscriber's relay has been given to the relay at least once when the
\* replay finishes, the subscriber not having cancelled by then.
ReplayFinishes(s) == replayPc[s] = "range" /\ replayPc'[s] = "end"
C19_SnapshotIsReplayed ==
  [][\A s \in Subscribers :
       (ReplayFinishes(s) /\ ~multiDone'[s]) =>
         \A t \in registeredAtCall[s] : relayed'[s][t] >= 1]_vars

\* C20: for every interleaving of add with a subscriber's Events, a tracker
\* is given to the subscriber's relay at most once, so that the subscriber
\* never has two streams over the same tracker.
C20_DeliveredAtMostOnce ==
  \A s \in Subscribers, t \in Eventers : relayed[s][t] <= 1

\* C21: no write of e.eventerMap, by add or by the goroutine that deletes an
\* entry, is in progress together with another write of it or with a
\* subscriber's range over it: every write of the map has exclusive access.
\* (The delete runs in one step under e.mutex.Lock(); the write of add is in
\* progress while addPc is "write".)
C21_ExclusiveMapWrites ==
  \A t \in Eventers : addPc[t] = "write" => ~MapRace(t)

\* C22: after the Closed() signal of a registered tracker closes, its entry
\* is eventually deleted from e.eventerMap, and once it is deleted the
\* tracker is handed to no relay, so that a subscriber that registers after
\* the removal never gets it.
ClosedAndRegistered(t) == removePc[t] = "lock"
Removed(t) == removePc[t] = "end"
C22_RemovedAfterClosed ==
  /\ \A t \in Eventers : ClosedAndRegistered(t) ~> Removed(t)
  /\ [][\A s \in Subscribers, t \in Eventers :
          Removed(t) => relayed'[s][t] = relayed[s][t]]_vars

\* C23: once a subscriber's cancellation channel is closed, its combined
\* stream is eventually closed and its chan is eventually deleted from
\* e.eventerChans, whatever the replay and the calls of add are doing.
RelayRemoved(s) == combinedClosed[s] /\ s \notin eventerChans
C23_CancelClosesCombined ==
  \A s \in Subscribers : multiDone[s] ~> RelayRemoved(s)

\* C24: after the subscriber's cancellation channel is closed, every
\* goroutine that feeds the subscriber (the main goroutine of Events, the
\* goroutine that starts the emitters, the emitter of every piece and file)
\* terminates, whether or not the subscriber still receives: none stays
\* blocked in a send on events.
FeedersTerminated ==
  /\ mainPc \in {"idle", "end"}
  /\ spawnPc \in {"idle", "end"}
  /\ \A p \in DOMAIN piecePc : piecePc[p] = "end"
  /\ \A f \in DOMAIN filePc : filePc[f] = "end"
C24_CancelStopsFeeders ==
  done ~> (FeedersTerminated \/ panicked)

\* C25: a subscriber that stops or delays receiving from its stream never
\* keeps the tracker's worker from closing its signals, nor another
\* subscriber from receiving, nor a call of add from returning: no step
\* taken for a subscriber's stream stops the process, in which the worker,
\* the other streams and the registry run; only a step of the worker can.
ProcessStops == ~panicked /\ panicked'
C25_SlowSubscriberIsolated ==
  [][ProcessStops => RunNext]_vars

\* C26: once the worker has closed Closed it has returned, and no PieceDone,
\* FileDone, DownloadDone or SeedingDone signal is closed afterwards: closing
\* Closed is the worker's last action.
C26_ClosedIsLastSignal ==
  [][/\ IsClosed(closed') => pc' = "done"
     /\ IsClosed(closed) =>
          /\ pieceDone' = pieceDone /\ fileDone' = fileDone
          /\ downloadDone' = downloadDone /\ seedingDone' = seedingDone]_vars

\* Closed is closed in the seed ratio loop, with the ratio not met
C26_Witness ==
  /\ IsClosed(closed) /\ pc = "done"
  /\ IsClosed(downloadDone) /\ ~IsClosed(seedingDone)

\* C27: in the seed ratio loop (a positive seed ratio, a seeding transfer),
\* the worker leaves the loop either on the transfer's Closed(), closing
\* Closed, returning and leaving SeedingDone open, or on a tick that finds
\* the ratio met, closing SeedingDone and leaving Closed open; a tick that
\* finds the ratio not met closes nothing; and Closed is closed only once
\* the transfer is closed.
InSeedLoop == pc = "seedLoop"
SeedAborted ==
  /\ tClosed /\ IsClosed(closed') /\ pc' = "done"
  /\ seedingDone' = seedingDone
SeedRatioReached ==
  /\ SeedRatioMet(tWritten') /\ IsClosed(seedingDone') /\ pc' = "waitClosed"
  /\ closed' = closed
C27_SeedPhase ==
  [][/\ (InSeedLoop' /\ ~InSeedLoop) => seedRatio > 0
     /\ (InSeedLoop /\ ~InSeedLoop') => (SeedAborted \/ SeedRatioReached)
     /\ (InSeedLoop /\ InSeedLoop') =>
          (seedingDone' = seedingDone /\ closed' = closed)
     /\ (InSeedLoop /\ ~SeedRatioMet(tWritten')) => seedingDone' = seedingDone
     /\ closed' # closed => tClosed]_vars

\* the ratio was met on a tick with the transfer open, which then closed
C27_Witness ==
  /\ seedRatio > 0 /\ tWritten > 0
  /\ IsClosed(seedingDone) /\ IsClosed(closed) /\ pc = "done"

\* C28: PieceDone(index) returns ok = false for every index that has no
\* signal, which is every index outside 0 .. NumPieces-1 and every index
\* while the metadata is not ready, and ok = true for every piece once the
\* signals are allocated; FileDone(path) does the same for the files.
Indices == -1 .. MaxPieces
Paths == -1 .. MaxFiles
C28_LookupOk ==
  /\ \A index \in Indices :
       PieceDoneOk(index) => (index \in Pieces /\ IsClosed(gotInfo))
  /\ \A path \in Paths :
       FileDoneOk(path) => (path \in Files /\ IsClosed(gotInfo))
  /\ IsClosed(chansReady) =>
       /\ \A index \in Indices : PieceDoneOk(index) <=> index \in Pieces
       /\ \A path \in Paths : FileDoneOk(path) <=> path \in Files

\* the signals are allocated and the bounds leave an index and a path that
\* are not of the transfer
C28_Witness ==
  /\ IsClosed(chansReady) /\ tNumPieces < MaxPieces /\ NumFiles < MaxFiles
  /\ PieceDoneOk(0) /\ ~PieceDoneOk(tNumPieces)
  /\ FileDoneOk(0) /\ ~FileDoneOk(NumFiles)

\* C29: the index built by the cursor sweep equals the interval query, two
\* ranges [a, b) and [c, d) overlapping iff b > c and d > a: every piece of
\* non-zero length found incomplete has exactly the files of non-zero length
\* that overlap it, and every file has exactly the pieces found incomplete
\* that overlap it, also when a piece spans more than two files and when
\* complete pieces are skipped.
RangesOverlap(a, b, c, d) == b > c /\ d > a
FilesOverlapping(p) ==
  {f \in Files :
     /\ FileLength(f) > 0
     /\ RangesOverlap(PieceOffset(p), PieceOffset(p) + PieceLength(p),
                      FileOffset(f), FileOffset(f) + FileLength(f))}
SweepDone == pc = "checkFiles"
C29_SweepEqualsOverlapQuery ==
  SweepDone =>
    /\ DataPieces \ tComplete \subseteq DOMAIN incompletePieceFiles
    /\ DOMAIN incompletePieceFiles \subseteq DataPieces
    /\ \A p \in DOMAIN incompletePieceFiles :
         incompletePieceFiles[p] = FilesOverlapping(p)
    /\ DOMAIN incompleteFilePieces = Files
    /\ \A f \in Files :
         incompleteFilePieces[f] =
           {p \in DOMAIN incompletePieceFiles : f \in FilesOverlapping(p)}

\* a piece that spans three files, one of which goes on into a later piece,
\* and a complete piece that was skipped
C29_Witness ==
  /\ SweepDone
  /\ \E p \in DOMAIN incompletePieceFiles :
       /\ Cardinality(incompletePieceFiles[p]) >= 3
       /\ \E f \in incompletePieceFiles[p] : \E q \in Pieces :
            q > p /\ f \in FilesOverlapping(q)
  /\ \E q \in DataPieces : q \notin DOMAIN incompletePieceFiles

\* C30: String is total: it returns "added", "gotInfo", "pieceDone",
\* "fileDone", "downloadDone", "seedingDone" and "closed" for the types 0 to 6
\* in that order and "unknown" for every other integer, and MarshalJSON
\* returns that string between two double quotes, with a nil error.
TypeNames ==
  <<"added", "gotInfo", "pieceDone", "fileDone", "downloadDone",
    "seedingDone", "closed">>
NameOf(t) == IF t + 1 \in DOMAIN TypeNames THEN TypeNames[t + 1] ELSE "unknown"
QuotedNames ==
  <<"\"added\"", "\"gotInfo\"", "\"pieceDone\"", "\"fileDone\"",
    "\"downloadDone\"", "\"seedingDone\"", "\"closed\"">>
QuotedNameOf(t) ==
  IF t + 1 \in DOMAIN QuotedNames THEN QuotedNames[t + 1] ELSE "\"unknown\""
C30_StringIsTotal ==
  /\ stringCall.called => stringCall.ret = NameOf(stringCall.t)
  /\ marshalCall.called =>
       /\ marshalCall.data = QuotedNameOf(marshalCall.t)
       /\ marshalCall.err = "nil"

\* String was called on a value that is none of the seven types and
\* MarshalJSON on the last of the seven
C30_Witness ==
  /\ stringCall.called /\ stringCall.t = Closed + 1
  /\ stringCall.ret = "unknown"
  /\ marshalCall.called /\ marshalCall.t = Closed
  /\ marshalCall.data = "\"closed\""

\* C31: whenever the transfer closes, in whichever step the worker is, the
\* worker eventually closes Closed and returns.
WorkerTerminated == IsClosed(closed) /\ pc = "done"
C31_ClosedEventually == tClosed ~> WorkerTerminated

\* C32: if the transfer has no bytes missing and does not close, every
\* PieceDone signal, every FileDone signal and DownloadDone are eventually
\* closed, whatever the order of the notifications and of the worker's reads
\* of the missing bytes. Behaviours in which the process has stopped on a
\* second close of a signal are left aside.
DownloadComplete == tGotInfo /\ BytesMissing = 0
AllDoneClosed ==
  /\ IsClosed(chansReady)
  /\ \A p \in DOMAIN pieceDone : IsClosed(pieceDone[p])
  /\ \A f \in DOMAIN fileDone : IsClosed(fileDone[f])
  /\ IsClosed(downloadDone)
C32_CompleteLeadsToAllDone ==
  DownloadComplete ~> (AllDoneClosed \/ tClosed \/ panicked)

\* C33: in every state of a tracker the closed signals are a prefix of the
\* lifecycle: SeedingDone closed implies DownloadDone closed, DownloadDone
\* closed implies GotInfo closed, an allocated PieceDone or FileDone signal
\* implies GotInfo closed, and GotInfo closed implies Added closed.
C33_LifecyclePrefix ==
  /\ IsClosed(seedingDone) => IsClosed(downloadDone)
  /\ IsClosed(downloadDone) => IsClosed(gotInfo)
  /\ (DOMAIN pieceDone # {} \/ DOMAIN fileDone # {}) => IsClosed(gotInfo)
  /\ IsClosed(gotInfo) => IsClosed(added)

\* the whole lifecycle has run on a transfer with pieces and files
C33_Witness ==
  /\ IsClosed(seedingDone) /\ IsClosed(downloadDone)
  /\ IsClosed(gotInfo) /\ IsClosed(added)
  /\ DOMAIN pieceDone # {} /\ DOMAIN fileDone # {}

\* C34: no goroutine sends on an event channel that has been closed: on a
\* tracker's stream no piece or file emitter (and not the main goroutine) is
\* in a send once close(events) has run, and on a combined stream no
\* forwarder is in a send once the combined stream has been closed.
C34_NoSendAfterClose ==
  /\ eventsClosed => (BlockedSenders = {} /\ mainPc \notin DOMAIN MainSends)
  /\ \A s \in Subscribers : combinedClosed[s] => ~ForwardersSending(s)

\* C35: every call of add eventually returns, whatever the subscribers do,
\* and the registry lock is never held for ever. Behaviours in which the
\* process has stopped on the fatal map error are left aside.
AddCalled(t) == addPc[t] \notin {"idle", "end"}
AddReturned(t) == addPc[t] = "end"
C35_AddReturns ==
  /\ \A t \in Eventers : AddCalled(t) ~> (AddReturned(t) \/ panicked)
  /\ (readers > 0) ~> (readers = 0 \/ panicked)

\* C36: on one stream each of Added, GotInfo, DownloadDone, SeedingDone and
\* Closed is emitted at most once, at most one FileDone per file and at most
\* one PieceDone per piece.
C36_EmittedAtMostOnce ==
  \A m, n \in DOMAIN events : events[m] = events[n] => m = n

\* a stream that delivered an event of each of the seven types
C36_Witness ==
  \A t \in Added .. Closed : \E n \in DOMAIN events : events[n].Type = t

\* C37: two streams on one tracker are independent: whatever the first
\* subscriber does (cancel, stop receiving), the other stream still delivers
\* Closed after the transfer has closed, unless its own subscriber cancelled.
OtherStreamOpen == otherMainPc # "idle" /\ ~otherDone
ClosedDeliveredToOther ==
  \E n \in DOMAIN otherEvents : otherEvents[n].Type = Closed
C37_OtherStreamReachesClosed ==
  (tClosed /\ OtherStreamOpen) ~> (ClosedDeliveredToOther \/ otherDone)

\* C38: svc.eventers has an entry for the transfer exactly while the transfer
\* is admitted and not closed: once addTorrentSpec has stored the entry it is
\* there as long as the transfer is not closed, and after the transfer has
\* closed, through Service.Drop or through the service's own drop on
\* SeedingDone, the entry is eventually gone (Eventer returns not found).
\* The two ways of closing are taken for a transfer whose entry is stored.
DroppedByCall == svcPc = "added" /\ dropPc = "lock"
DroppedWhenDone == svcPc = "added" /\ tClosed /\ dropPc = "idle"
C38_EntryWhileAdmitted ==
  /\ []((svcPc = "added" /\ ~tClosed) => EventerFound)
  /\ ((DroppedByCall \/ DroppedWhenDone) ~> (~EventerFound \/ panicked))

\* C39: the service drops the transfer on its own only with DropWhenDone set
\* and only when it handles the SeedingDone event of its own stream; any other
\* step that closes the transfer is a call of Service.Drop.
TransferDropped == ~tClosed /\ tClosed'
DropCalled == dropPc = "idle" /\ dropPc' = "lock"
SeedingDoneHandled ==
  /\ svcHandled < Len(events)
  /\ events[svcHandled + 1].Type = SeedingDone
  /\ svcHandled' = svcHandled + 1
C39_DropsOnlyWhenDone ==
  [][TransferDropped => (DropCalled \/ (dropWhenDone /\ SeedingDoneHandled))]_vars

\* the service dropped the transfer on its own after SeedingDone
C39_Witness ==
  /\ dropWhenDone /\ tClosed /\ dropPc = "idle"
  /\ \E n \in 1 .. svcHandled : events[n].Type = SeedingDone

\* C40: seedWait returns 0 once the bytes written have reached the target
\* length * ratio; below the target it returns
\* (1 - written / (length * ratio)) * 15 s + 1 s (up to the 15 ms step of the
\* conversion to whole milliseconds), a value between 1 s and 16 s; and a
\* later call, made with at least as many bytes written, never returns a
\* longer wait.
SeedTarget == seedWaitCall.length * seedWaitCall.ratio
SeedWaitExact ==
  LET scaled == seedWaitCall.wait * SeedTarget
      exact == 15 * Second * (SeedTarget - seedWaitCall.at) + Second * SeedTarget
  IN  scaled <= exact /\ exact - scaled < 15 * Millisecond * SeedTarget
SeedWaitValue ==
  seedWaitCall.called =>
    IF seedWaitCall.at >= SeedTarget
    THEN seedWaitCall.wait = 0
    ELSE /\ SeedWaitExact
         /\ Second <= seedWaitCall.wait /\ seedWaitCall.wait <= 16 * Second
SeedWaitNeverLonger ==
  (seedWaitCall.called /\ seedWaitCall'.called) =>
    seedWaitCall'.wait <= seedWaitCall.wait
C40_SeedWaitFormula == []SeedWaitValue /\ [][SeedWaitNeverLonger]_vars

====
